---- MODULE Spec2Model ----
(***************************************************************************)
(* A model of the blood pressure monitor's device communication:          *)
(*   - bpm_bt.py : Discovery (concurrent probes of the paired Bluetooth    *)
(*                 LE devices) and Microlife_BTLE (the wireless session);  *)
(*   - bpm_usb.py: USB_IO / Microlife_USB (the wired session and its       *)
(*                 send_command retry loop).                               *)
(*                                                                         *)
(* Spec       one communication attempt at the level of commands: either   *)
(*            a wireless discovery round with its session, or a USB        *)
(*            session (the transport is chosen in Init).                   *)
(* SpecRound  the wireless discovery round of Spec alone.                   *)
(* SpecTeardown SpecRound with the writes of send_command returning.       *)
(* SpecUsbCmd one call of Microlife_USB.send_command at the level of       *)
(*            bytes.                                                       *)
(* SpecNotify Microlife_BTLE.characteristic_notification at the level of   *)
(*            bytes.                                                       *)
(* SpecScenario the same with the responses of an acknowledgement.         *)
(* SpecChunks the chunking of the writes of both transports.               *)
(* SpecCommands the commands of the wireless engine as they are built.     *)
(* SpecHex    the hexadecimal encoding and decoding of the USB engine.     *)
(* SpecUsbData the decoding of the USB measurement records.                *)
(***************************************************************************)
EXTENDS Integers, Sequences, FiniteSets, TLC

\* ------------------------------------------------------------- bounds ----

\* number of Bluetooth LE devices a scan can return
MaxPeers == 2

\* number of measurement records a response can hold
MaxRecords == 1

\* number of bytes a USB response can have
MaxResponse == 4

\* number of bytes the notifications of one response can add up to
MaxReceived == 6

\* number of bytes of a command or of an argument stream that is chunked
MaxLen == 45

\* number of characters of an identifier handed to set_id
MaxIdLen == 22

\* number of bytes of a USB argument payload
MaxPayload == 32

\* number of records in a response to the measurement command
MaxCycles == 3

\* the longest result of GET_MEASUREMENTS, in bytes
MaxResult == 60

\* number of devices a scan returns, where their addresses matter
MaxScanned == 3

\* number of reports the device has ready for one read
MaxReports == 3

\* number of times the caller reads get_patient_id() after a USB session
MaxReads == 3

\* number of measurements in one call of insert_measurements
MaxMeasurements == 2

\* ---------------------------------------------------------- constants ----

NoDevice == 0

NoId == "None"

\* patient identifiers: the empty one and a non-empty one
Ids == {"", "A"}

Peers == 1 .. MaxPeers

\* the wireless commands of run_client and whether send_command waits for
\* their response
Commands == {"SET_DATETIME", "GET_ID", "SET_ID", "GET_MEASUREMENTS", "DISCONNECT"}

\* split_write_cmd: the number of writes of at most 20 bytes a command takes
\* (SET_ID has 28 bytes, SET_DATETIME 12, GET_MEASUREMENTS 13, the others 6)
NumWrites(cmd) == IF cmd = "SET_ID" THEN 2 ELSE 1

\* the content of a byte buffer, as far as the session looks at it:
\*   "empty" b'', "ack" exactly the byte 129, "data" anything else
Contents == {"empty", "ack", "data"}

VARIABLES
    transport,       \* "bt" | "usb": the transport of this attempt
    update_id,       \* the identifier the caller pre-supplied, or NoId
    runpc,           \* Discovery.run: "discover" | "gather" | "done" ("none": USB)
    devices,         \* Discovery.devices
    found_device,    \* Discovery.found_device (NoDevice: None)
    pc,              \* isbpm task of each device: where it is suspended
    exc,             \* isbpm task: an exception is propagating
    conn,            \* each device's connection: "none" | "open" | "closed"
    matched,         \* devices whose capabilities passed the match test
    subs,            \* connections with the notification callback registered
    client,          \* Microlife_BTLE.client
    cmd,             \* the command each task's send_command is sending
    chunks,          \* the writes that command still takes
    result_event,    \* Microlife_BTLE.result_event
    received_value,  \* Microlife_BTLE.received_value: "empty"|"partial"|"garbage"
    result,          \* Microlife_BTLE.result, a member of Contents
    aliased,         \* result and received_value are the same bytearray: no
                     \* response was completed since send_command reset them
    patient_id,      \* patient_id of the session object
    update,          \* the local variable update: "unset" | "True" | "False"
    blood_pressure_measurements,  \* number of records appended
    log,             \* what the attempt did, in order
    upc,             \* the USB session: where it is ("none": wireless)
    device,          \* USB_IO.device: "none" | "open"
    hid_closes,      \* calls of hid.Device.close()
    \* Microlife_USB.send_command, one call (SpecUsbCmd)
    spc,             \* "idle" | "loop" | "returned" | "raised"
    usb_cmd,         \* the parameter cmd, a command byte
    has_arg,         \* the parameter arg is not None
    arg,             \* the parameter arg, a sequence of bytes
    retries,         \* the local variable retries
    response,        \* the response read in the attempt that ended the call
    value,           \* the value returned: None or Bytes(...)
    error,           \* the exception the call raised, or "none"
    header_writes,   \* writes of the 4 command bytes
    arg_writes,      \* the writes of the encoded argument, in order
    reads,           \* calls of read()
    only_malformed,  \* every response read so far was malformed
    \* Microlife_BTLE.characteristic_notification (SpecNotify)
    nv_received,     \* received_value, a sequence of bytes
    nv_result,       \* result, a sequence of bytes
    nv_aliased,      \* result and received_value are the same bytearray
    nv_event,        \* result_event is set
    nv_last,         \* the last call of the callback: the buffer it
                     \* checked, its outcome, and the result and the
                     \* event before it
    \* the write loops of the two send_command
    engine,          \* "bt" | "usb": whose loop runs ("none": no loop)
    stream,          \* the bytes send_command is to write
    rest,            \* the loop variable (cmd, arg): what is still to write
    written,         \* the writes issued so far, in order
    wpc,             \* "loop" | "done" ("none": no loop)
    \* one call of a function that builds a command or decodes a response
    call,            \* the function and its argument
    ret              \* what it returned or raised (Pending: not yet)

bt_vars == <<runpc, devices, found_device, pc, exc, conn, matched, subs, client,
             cmd, chunks, result_event, received_value, result, aliased>>

usb_vars == <<upc, device, hid_closes>>

session_vars == <<patient_id, update, blood_pressure_measurements>>

cmd_vars == <<spc, usb_cmd, has_arg, arg, retries, response, value, error,
              header_writes, arg_writes, reads, only_malformed>>

ntf_vars == <<nv_received, nv_result, nv_aliased, nv_event, nv_last>>

chunk_vars == <<engine, stream, rest, written, wpc>>

codec_vars == <<call, ret>>

\* what a step of the wireless round, and of the USB session, leaves alone
not_bt == <<usb_vars, cmd_vars, ntf_vars, chunk_vars, codec_vars>>

not_usb == <<bt_vars, cmd_vars, ntf_vars, chunk_vars, codec_vars>>

attempt_vars == <<transport, update_id, bt_vars, usb_vars, session_vars, log>>

vars == <<attempt_vars, cmd_vars, ntf_vars, chunk_vars, codec_vars>>

\* ------------------------------------------------------------ the log ----

Entry(op, c, on) == [op |-> op, cmd |-> c, on |-> on]

Logged(l, e) == \E i \in 1 .. Len(l) : l[i] = e

Count(l, op) == Cardinality({i \in 1 .. Len(l) : l[i].op = op})

CountOn(l, op, on) == Cardinality({i \in 1 .. Len(l) : l[i].op = op /\ l[i].on = on})

CountCmd(l, op, c) == Cardinality({i \in 1 .. Len(l) : l[i].op = op /\ l[i].cmd = c})

\* the positions of the log at which command c was (first) written
FirstWrite(l, c) ==
    IF \E i \in 1 .. Len(l) : l[i].op = "write" /\ l[i].cmd = c
    THEN CHOOSE i \in 1 .. Len(l) :
             /\ l[i].op = "write" /\ l[i].cmd = c
             /\ \A j \in 1 .. i - 1 : ~(l[j].op = "write" /\ l[j].cmd = c)
    ELSE 0

FirstOp(l, op) ==
    IF \E i \in 1 .. Len(l) : l[i].op = op
    THEN CHOOSE i \in 1 .. Len(l) :
             l[i].op = op /\ \A j \in 1 .. i - 1 : l[j].op # op
    ELSE 0

\* ---------------------------------------------------------------- Init ----

\* the objects as constructed: Discovery.__init__ up to the call of run,
\* Microlife_BTLE.__init__, and a USB session before the device is opened
Constructed ==
    /\ devices = {}
    /\ found_device = NoDevice
    /\ pc = [p \in Peers |-> "none"]
    /\ exc = [p \in Peers |-> FALSE]
    /\ conn = [p \in Peers |-> "none"]
    /\ matched = {}
    /\ subs = {}
    /\ client = NoDevice
    /\ cmd = [p \in Peers |-> "none"]
    /\ chunks = [p \in Peers |-> 0]
    /\ result_event = FALSE
    /\ received_value = "empty"
    /\ result = "empty"
    /\ aliased = FALSE
    /\ patient_id = NoId
    /\ update = "unset"
    /\ blood_pressure_measurements = 0
    /\ log = <<>>
    /\ device = "none"
    /\ hid_closes = 0

AttemptInit ==
    /\ transport \in {"bt", "usb"}
    /\ update_id \in {NoId} \cup Ids
    /\ runpc = IF transport = "bt" THEN "discover" ELSE "none"
    /\ upc = IF transport = "usb" THEN "start" ELSE "none"
    /\ Constructed

\* no communication attempt
AttemptIdle ==
    /\ transport = "none"
    /\ update_id = NoId
    /\ runpc = "none"
    /\ upc = "none"
    /\ Constructed

\* ------------------------------------------------------ Discovery.run ----

\* run, up to gather: the scan returns n devices (already restricted to the
\* paired ones; they are numbered 1 .. n); with none the round ends with a message, otherwise one
\* isbpm task per device is created
Discover ==
    /\ transport = "bt" /\ runpc = "discover"
    /\ \E n \in 0 .. MaxPeers :
      LET ds == 1 .. n IN
        /\ devices' = ds
        /\ IF ds = {}
           THEN /\ runpc' = "done"
                /\ log' = Append(log, Entry("no_devices", "none", NoDevice))
                /\ pc' = pc
           ELSE /\ runpc' = "gather"
                /\ log' = Append(log, Entry("contacting", "none", NoDevice))
                /\ pc' = [p \in Peers |-> IF p \in ds THEN "created" ELSE "none"]
    /\ UNCHANGED <<transport, update_id, found_device, exc, conn, matched, subs,
                   client, cmd, chunks, result_event, received_value, result,
                   aliased, not_bt, session_vars>>

\* gather returns as soon as one task has finished
AnyFinished == \E p \in devices : pc[p] = "done"

\* run, line 113: gather returns when every task has finished (no task
\* raises: the handler of isbpm catches what its body raises)
AllFinished == \A p \in devices : pc[p] = "done"

\* run, after gather: every task has finished; report when nothing was found
GatherDone ==
    /\ transport = "bt" /\ runpc = "gather"
    /\ AllFinished
    /\ runpc' = "done"
    /\ log' = IF found_device = NoDevice
              THEN Append(log, Entry("not_found", "none", NoDevice))
              ELSE log
    /\ UNCHANGED <<transport, update_id, devices, found_device, pc, exc, conn,
                   matched, subs, client, cmd, chunks, result_event,
                   received_value, result, aliased, not_bt, session_vars>>

\* ---------------------------------------------------- Discovery.isbpm ----

\* an exception leaves the body of "async with": the client's __aexit__
\* disconnects before the handler of isbpm sees it
Raise(c) ==
    /\ pc' = [pc EXCEPT ![c] = "disconnecting"]
    /\ exc' = [exc EXCEPT ![c] = TRUE]

\* a return that leaves the connection as it is
LeaveOpen(c) ==
    /\ pc' = [pc EXCEPT ![c] = "done"]
    /\ exc' = exc

\* a return from inside "async with": __aexit__ disconnects, nothing propagates
Leave(c) ==
    /\ pc' = [pc EXCEPT ![c] = "disconnecting"]
    /\ exc' = exc

\* the handler reports the exception of every candidate
ReportsAll(c) == TRUE

\* isbpm, line 158: the handler reports only the exception of the winner
Reports(c) == found_device = c

\* no test before the assignment of found_device
MayClaimAlways(fd) == TRUE

\* isbpm, line 141: the test that guards the assignment of found_device
MayClaim(fd) == fd = NoDevice

\* send_command up to its first suspension: the buffers are reset to one
\* shared empty bytearray (the event is left as it is) and the first write of
\* at most 20 bytes is issued on self.client
SendStart(c, k, l, cl) ==
    /\ received_value' = "empty"
    /\ result' = "empty"
    /\ aliased' = TRUE
    /\ cmd' = [cmd EXCEPT ![c] = k]
    /\ chunks' = [chunks EXCEPT ![c] = NumWrites(k)]
    /\ pc' = [pc EXCEPT ![c] = "write"]
    /\ log' = Append(l, Entry("write", k, cl))

\* the task starts: it ends at once when the winner is already decided,
\* otherwise it opens its connection. The event loop runs the tasks that are
\* ready in the order in which ensure_future created them
TaskStart(c) ==
    /\ pc[c] = "created"
    /\ \A d \in devices : d < c => pc[d] # "created"
    /\ pc' = [pc EXCEPT ![c] = IF found_device # NoDevice THEN "done" ELSE "connecting"]
    /\ UNCHANGED <<transport, update_id, runpc, devices, found_device, exc, conn,
                   matched, subs, client, cmd, chunks, result_event,
                   received_value, result, aliased, not_bt,
                   session_vars, log>>

\* every task that is ready has run to its first suspension before the
\* event loop handles the completion of an input or output
AllStarted == \A d \in devices : pc[d] # "created"

\* a connection after which the capabilities are enumerated whether the
\* winner is decided or not
ConnectedEnumerates(c) ==
    /\ pc[c] = "connecting"
    /\ AllStarted
    /\ conn' = [conn EXCEPT ![c] = "open"]
    /\ pc' = [pc EXCEPT ![c] = "get_services"]
    /\ UNCHANGED <<transport, update_id, runpc, devices, found_device, exc,
                   matched, subs, client, cmd, chunks, result_event,
                   received_value, result, aliased, not_bt,
                   session_vars, log>>

\* the connection is open: leave when the winner is already decided,
\* otherwise enumerate the capabilities
Connected(c) ==
    /\ pc[c] = "connecting"
    /\ AllStarted
    /\ conn' = [conn EXCEPT ![c] = "open"]
    /\ IF found_device # NoDevice
       THEN Leave(c)
       ELSE pc' = [pc EXCEPT ![c] = "get_services"] /\ exc' = exc
    /\ UNCHANGED <<transport, update_id, runpc, devices, found_device,
                   matched, subs, client, cmd, chunks, result_event,
                   received_value, result, aliased, not_bt,
                   session_vars, log>>

\* the connection cannot be opened: the exception reaches the handler of
\* isbpm, which reports it only for the winner
ConnectFails(c) ==
    /\ pc[c] = "connecting"
    /\ AllStarted
    /\ pc' = [pc EXCEPT ![c] = "done"]
    /\ log' = IF Reports(c)
              THEN Append(log, Entry("exception", "none", c))
              ELSE log
    /\ UNCHANGED <<transport, update_id, runpc, devices, found_device, exc, conn,
                   matched, subs, client, cmd, chunks, result_event,
                   received_value, result, aliased, not_bt, session_vars>>

\* the capabilities are enumerated and do not match: leave
NoMatch(c) ==
    /\ pc[c] = "get_services"
    /\ Leave(c)
    /\ UNCHANGED <<transport, update_id, runpc, devices, found_device, conn,
                   matched, subs, client, cmd, chunks, result_event,
                   received_value, result, aliased, not_bt,
                   session_vars, log>>

\* the capabilities match: the first task to get here sets found_device,
\* reports the device and enters run_client, which registers the
\* notification callback; a later one leaves
Match(c) ==
    /\ pc[c] = "get_services"
    /\ matched' = matched \cup {c}
    /\ IF MayClaim(found_device)
       THEN /\ found_device' = c
            /\ client' = c
            /\ subs' = subs \cup {c}
            /\ pc' = [pc EXCEPT ![c] = "start_notify"]
            /\ exc' = exc
            /\ log' = log \o <<Entry("assign", "none", c), Entry("found", "none", c),
                               Entry("run_client", "none", c),
                               Entry("start_notify", "none", c)>>
       ELSE /\ Leave(c)
            /\ UNCHANGED <<found_device, client, subs, log>>
    /\ UNCHANGED <<transport, update_id, runpc, devices, conn, cmd, chunks,
                   result_event, received_value, result, aliased,
                   not_bt, session_vars>>

\* the enumeration of the capabilities fails
GetServicesFails(c) ==
    /\ pc[c] = "get_services"
    /\ Raise(c)
    /\ UNCHANGED <<transport, update_id, runpc, devices, found_device, conn,
                   matched, subs, client, cmd, chunks, result_event,
                   received_value, result, aliased, not_bt,
                   session_vars, log>>

\* a disconnection after which a failed winner gives up its claim
DisconnectedResets(c) ==
    /\ pc[c] = "disconnecting"
    /\ conn' = [conn EXCEPT ![c] = "closed"]
    /\ subs' = subs \ {c}
    /\ pc' = [pc EXCEPT ![c] = "done"]
    /\ \E fails \in BOOLEAN :
        /\ log' = IF (exc[c] \/ fails) /\ Reports(c)
                  THEN Append(log, Entry("exception", "none", c))
                  ELSE log
        /\ found_device' = IF (exc[c] \/ fails) /\ Reports(c) THEN NoDevice
                           ELSE found_device
    /\ exc' = [exc EXCEPT ![c] = FALSE]
    /\ UNCHANGED <<transport, update_id, runpc, devices, matched,
                   client, cmd, chunks, result_event, received_value, result,
                   aliased, not_bt, session_vars>>

\* __aexit__ of the client: the connection is closed, also when the
\* disconnect itself fails; then isbpm ends, through its handler when an
\* exception propagates (reported only for the winner)
Disconnected(c) ==
    /\ pc[c] = "disconnecting"
    /\ conn' = [conn EXCEPT ![c] = "closed"]
    /\ subs' = subs \ {c}
    /\ pc' = [pc EXCEPT ![c] = "done"]
    /\ \E fails \in BOOLEAN :
        log' = IF (exc[c] \/ fails) /\ Reports(c)
               THEN Append(log, Entry("exception", "none", c))
               ELSE log
    /\ exc' = [exc EXCEPT ![c] = FALSE]
    /\ UNCHANGED <<transport, update_id, runpc, devices, found_device, matched,
                   client, cmd, chunks, result_event, received_value, result,
                   aliased, not_bt, session_vars>>

\* ------------------------------------------ Microlife_BTLE.run_client ----

\* the variables of the discovery that a step of the session leaves alone
disc_frame == <<transport, update_id, runpc, devices, found_device, conn,
                matched, client, not_bt>>

\* every command waits for a response
WaitsAlways(k) == TRUE

\* send_command: only DISCONNECT is sent with wait_for_response = False
WaitsForResponse(k) == k # "DISCONNECT"

\* start_notify has returned: set_date_and_time sends SET_DATETIME
NotifyStarted(c) ==
    /\ pc[c] = "start_notify"
    /\ SendStart(c, "SET_DATETIME", log, client)
    /\ UNCHANGED <<disc_frame, exc, subs, result_event, session_vars>>

\* start_notify fails
NotifyFails(c) ==
    /\ pc[c] = "start_notify"
    /\ Raise(c)
    /\ UNCHANGED <<disc_frame, subs, cmd, chunks, result_event, received_value,
                   result, aliased, session_vars, log>>

\* run_client has returned to isbpm, which reports the end of the
\* communication when other devices were contacted, and leaves
Returned(l) ==
    IF Cardinality(devices) > 1
    THEN Append(l, Entry("comm_done", "none", found_device))
    ELSE l

\* a write of send_command has returned: the next chunk is written, or the
\* wait for the response starts, or (DISCONNECT) send_command, run_client
\* and the body of isbpm end
WriteDone(c) ==
    /\ pc[c] = "write"
    /\ IF chunks[c] > 1
       THEN /\ chunks' = [chunks EXCEPT ![c] = chunks[c] - 1]
            /\ log' = Append(log, Entry("write", cmd[c], client))
            /\ UNCHANGED <<pc, exc>>
       ELSE /\ chunks' = [chunks EXCEPT ![c] = 0]
            /\ IF WaitsForResponse(cmd[c])
               THEN /\ pc' = [pc EXCEPT ![c] = "wait"]
                    /\ UNCHANGED <<exc, log>>
               ELSE /\ Leave(c)
                    /\ log' = Returned(Append(log, Entry("session_end", "none", c)))
    /\ UNCHANGED <<disc_frame, subs, cmd, result_event, received_value, result,
                   aliased, session_vars>>

\* a write of send_command fails
WriteFails(c) ==
    /\ pc[c] = "write"
    /\ Raise(c)
    /\ UNCHANGED <<disc_frame, subs, cmd, chunks, result_event, received_value,
                   result, aliased, session_vars, log>>

\* the expiry of the wait is swallowed and run_client goes on to its teardown
TimeoutSkips(c) ==
    /\ pc' = [pc EXCEPT ![c] = "stop_notify"]
    /\ exc' = exc
    /\ UNCHANGED <<cmd, chunks, received_value, result, aliased,
                   session_vars, subs>>

\* the 60 seconds of wait_for pass with the event not set: send_command
\* raises, and the exception leaves run_client
TimeoutAborts(c) ==
    /\ Raise(c)
    /\ UNCHANGED <<cmd, chunks, received_value, result, aliased,
                   session_vars, subs>>

Timeout(c) ==
    /\ pc[c] = "wait"
    /\ ~result_event
    /\ log' = Append(log, Entry("timeout", cmd[c], c))
    /\ TimeoutAborts(c)
    /\ UNCHANGED <<disc_frame, result_event>>

\* the teardown without stop_notify
SkipStopNotify(c, l) == SendStart(c, "DISCONNECT", l, client)

\* run_client, lines 246-247: stop_notify is called
StopNotify(c, l) ==
    /\ pc' = [pc EXCEPT ![c] = "stop_notify"]
    /\ log' = Append(l, Entry("stop_notify", "none", c))
    /\ UNCHANGED <<cmd, chunks, received_value, result, aliased>>

\* the callback is also used when the pre-supplied identifier is empty
UsesCallbackIfEmpty(uid) == uid \in {NoId, ""}

\* run_client, line 236, and usb_communication, line 102: the callback
\* resolves the identifier unless the caller pre-supplied one
UsesCallback(uid) == uid = NoId

\* the resolution as the log records it: the call of the callback (with
\* the identifier that get_id returned in the same step), or the use of the
\* pre-supplied identifier
Resolution(c) ==
    Entry(IF UsesCallback(update_id) THEN "callback" ELSE "forced", "none", c)

\* run_client, lines 241-245: what follows the resolution of the identifier
NeedsSetId(upd, id) == upd

\* the measurements are retrieved only after an update
NeedsDataUpdOnly(upd, id) == upd

NeedsData(upd, id) == upd \/ id # ""

AfterResolve(c, upd, id, l) ==
    IF NeedsSetId(upd, id)
    THEN SendStart(c, "SET_ID", l, client)
    ELSE IF NeedsData(upd, id)
         THEN SendStart(c, "GET_MEASUREMENTS", l, client)
         ELSE StopNotify(c, l)

\* what a return of send_command adds to the log: whether a response was
\* completed while it ran, and whether its caller accepted the result
Woke(c, ok) ==
    <<Entry(IF aliased THEN "stale" ELSE "response", cmd[c], c),
      Entry(IF ok THEN "done" ELSE "failed", cmd[c], c)>>

\* the event is set and send_command returns result: set_date_and_time
\* asserts the acknowledgement, then get_id sends GET_ID
WakeSetDateTime(c) ==
    /\ pc[c] = "wait" /\ cmd[c] = "SET_DATETIME" /\ result_event
    /\ result_event' = FALSE
    /\ IF result = "ack"
       THEN /\ SendStart(c, "GET_ID", log \o Woke(c, TRUE), client)
            /\ exc' = exc
       ELSE /\ Raise(c)
            /\ log' = log \o Woke(c, FALSE)
            /\ UNCHANGED <<cmd, chunks, received_value, result, aliased>>
    /\ UNCHANGED <<disc_frame, subs, session_vars>>

\* get_id reads result[1] and the identifier (IndexError when the result has
\* fewer than 2 bytes); run_client resolves the identifier, with the
\* callback unless the caller pre-supplied one, and goes on
WakeGetId(c) ==
    /\ pc[c] = "wait" /\ cmd[c] = "GET_ID" /\ result_event
    /\ result_event' = FALSE
    /\ \E stored \in Ids \cup {"IndexError"} :
        /\ result \in {"empty", "ack"} => stored = "IndexError"
        /\ IF stored = "IndexError"
           THEN /\ Raise(c)
                /\ log' = log \o Woke(c, FALSE)
                /\ UNCHANGED <<cmd, chunks, received_value, result, aliased, session_vars>>
           ELSE \E new_id \in Ids, upd \in BOOLEAN :
                /\ ~UsesCallback(update_id) => new_id = update_id /\ upd
                /\ patient_id' = new_id
                /\ update' = IF upd THEN "True" ELSE "False"
                /\ AfterResolve(c, upd, new_id,
                                log \o Woke(c, TRUE) \o <<Resolution(c)>>)
                /\ UNCHANGED <<exc, blood_pressure_measurements>>
    /\ UNCHANGED <<disc_frame, subs>>

\* set_id asserts the acknowledgement, then get_data sends GET_MEASUREMENTS
WakeSetId(c) ==
    /\ pc[c] = "wait" /\ cmd[c] = "SET_ID" /\ result_event
    /\ result_event' = FALSE
    /\ IF result = "ack"
       THEN /\ SendStart(c, "GET_MEASUREMENTS", log \o Woke(c, TRUE), client)
            /\ exc' = exc
       ELSE /\ Raise(c)
            /\ log' = log \o Woke(c, FALSE)
            /\ UNCHANGED <<cmd, chunks, received_value, result, aliased>>
    /\ UNCHANGED <<disc_frame, subs, session_vars>>

\* get_data decodes the records from offset 38 on (none in a result of at
\* most 38 bytes; ValueError on a fragment of fewer than 8 bytes, after the
\* records before it were appended), then run_client calls stop_notify
WakeGetMeasurements(c) ==
    /\ pc[c] = "wait" /\ cmd[c] = "GET_MEASUREMENTS" /\ result_event
    /\ result_event' = FALSE
    /\ \E n \in 0 .. MaxRecords, fails \in BOOLEAN :
        /\ result \in {"empty", "ack"} => n = 0 /\ ~fails
        /\ blood_pressure_measurements' = blood_pressure_measurements + n
        /\ IF fails
           THEN /\ Raise(c)
                /\ log' = log \o Woke(c, FALSE)
                /\ UNCHANGED <<cmd, chunks, received_value, result, aliased>>
           ELSE /\ StopNotify(c, log \o Woke(c, TRUE))
                /\ exc' = exc
    /\ UNCHANGED <<disc_frame, subs, patient_id, update>>

\* stop_notify has returned: DISCONNECT is sent, without a wait
StopNotifyDone(c) ==
    /\ pc[c] = "stop_notify"
    /\ subs' = subs \ {c}
    /\ SendStart(c, "DISCONNECT", log, client)
    /\ UNCHANGED <<disc_frame, exc, result_event, session_vars>>

\* stop_notify fails
StopNotifyFails(c) ==
    /\ pc[c] = "stop_notify"
    /\ Raise(c)
    /\ UNCHANGED <<disc_frame, subs, cmd, chunks, result_event, received_value,
                   result, aliased, session_vars, log>>

\* ------------------------- Microlife_BTLE.characteristic_notification ----

\* the callback runs while a connection with the callback registered is open.
\* Once the task has left run_client nothing reads the buffers, the result
\* or the event any more, so the notifications that arrive while the
\* connection is being closed are not followed
Subscribed == \E c \in subs : conn[c] = "open" /\ pc[c] # "disconnecting"

\* the notification completes a response that passes the three assertions:
\* its payload becomes result (a new bytearray), the buffer a new empty one,
\* and the event is set
NotifyComplete ==
    /\ Subscribed
    /\ received_value \in {"empty", "partial"}
    /\ \E payload \in Contents : result' = payload
    /\ received_value' = "empty"
    /\ aliased' = FALSE
    /\ result_event' = TRUE
    /\ UNCHANGED <<disc_frame, pc, exc, subs, cmd, chunks, session_vars, log>>

\* the notification extends the buffer and the response is not complete yet
\* (or the buffer has fewer than 4 bytes, IndexError): the bytes stay in the
\* buffer, which result still is when no response was completed since
\* send_command reset both
NotifyPartial ==
    /\ Subscribed
    /\ received_value \in {"empty", "partial"}
    /\ received_value' = "partial"
    /\ result' = IF aliased THEN "data" ELSE result
    /\ UNCHANGED <<disc_frame, pc, exc, subs, cmd, chunks, session_vars, log,
                   aliased, result_event>>

\* the notification extends the buffer and an assertion fails (tag, length
\* or checksum): the bytes stay in the buffer, nothing else happens. A
\* buffer that was empty may now be the single byte 129
NotifyBad ==
    /\ Subscribed
    /\ received_value' = "garbage"
    /\ \E content \in {"ack", "data"} :
        /\ received_value # "empty" => content = "data"
        /\ result' = IF aliased THEN content ELSE result
    /\ UNCHANGED <<disc_frame, pc, exc, subs, cmd, chunks, session_vars, log,
                   aliased, result_event>>

\* ------------------------------------------------------ Microlife_USB ----

\* where usb_communication goes after the resolution of the identifier
UsbAfterResolve(upd, id) ==
    IF NeedsSetId(upd, id) THEN "set_id"
    ELSE IF NeedsData(upd, id) THEN "get_data"
    ELSE "exit"

\* what a step of usb_communication adds to the log: the command it sent and
\* whether the step ended without an exception
UsbSent(k, ok) ==
    <<Entry("write", k, NoDevice), Entry(IF ok THEN "done" ELSE "failed", k, NoDevice)>>

\* USB_IO.close: the handle is closed once; without a handle nothing is done
Close ==
    IF device = "open"
    THEN device' = "none" /\ hid_closes' = hid_closes + 1
    ELSE UNCHANGED <<device, hid_closes>>

\* "with Microlife_USB(...)": __init__ opens the device; when that fails
\* there is no object and no scope, and the caller reports the error
UsbOpen ==
    /\ transport = "usb" /\ upc = "start"
    /\ \E ok \in BOOLEAN :
        IF ok THEN /\ device' = "open"
                   /\ upc' = "set_date_time"
                   /\ log' = Append(log, Entry("open", "none", NoDevice))
              ELSE /\ device' = device
                   /\ upc' = "not_found"
                   /\ log' = Append(log, Entry("error", "none", NoDevice))
    /\ UNCHANGED <<transport, update_id, not_usb, hid_closes, session_vars>>

\* usb_communication, set_date_time: send_command(SET_DATETIME, arg) returns
\* (the bytes read after the argument, or None after 15 rejected attempts;
\* the caller looks at neither) or raises
UsbSetDateTime ==
    /\ transport = "usb" /\ upc = "set_date_time"
    /\ \E out \in {"returned", "None", "raise"} :
        /\ upc' = IF out = "raise" THEN "exit_exc" ELSE "get_id"
        /\ log' = log \o UsbSent("SET_DATETIME", out # "raise")
    /\ UNCHANGED <<transport, update_id, not_usb, device, hid_closes, session_vars>>

\* get_patient_id: send_command(GET_ID) returns a response, whose identifier
\* get_id decodes, or returns None (TypeError on the slice) or raises; then
\* the identifier is resolved as on the wireless transport
UsbGetId ==
    /\ transport = "usb" /\ upc = "get_id"
    /\ \E stored \in Ids \cup {"None", "raise"} :
        IF stored \in {"None", "raise"}
        THEN /\ upc' = "exit_exc"
             /\ log' = log \o UsbSent("GET_ID", FALSE)
             /\ UNCHANGED session_vars
        ELSE \E new_id \in Ids, upd \in BOOLEAN :
             /\ ~UsesCallback(update_id) => new_id = update_id /\ upd
             /\ patient_id' = new_id
             /\ update' = IF upd THEN "True" ELSE "False"
             /\ upc' = UsbAfterResolve(upd, new_id)
             /\ log' = log \o UsbSent("GET_ID", TRUE) \o <<Resolution(NoDevice)>>
             /\ UNCHANGED blood_pressure_measurements
    /\ UNCHANGED <<transport, update_id, not_usb, device, hid_closes>>

\* set_id: send_command(SET_ID, arg), as for SET_DATETIME; then get_data
UsbSetId ==
    /\ transport = "usb" /\ upc = "set_id"
    /\ \E out \in {"returned", "None", "raise"} :
        /\ upc' = IF out = "raise" THEN "exit_exc" ELSE "get_data"
        /\ log' = log \o UsbSent("SET_ID", out # "raise")
    /\ UNCHANGED <<transport, update_id, not_usb, device, hid_closes, session_vars>>

\* get_data: send_command(CYCLES) and the decoding of the records, which
\* may raise after some records were appended
UsbGetData ==
    /\ transport = "usb" /\ upc = "get_data"
    /\ \E n \in 0 .. MaxRecords, fails \in BOOLEAN :
        /\ blood_pressure_measurements' = blood_pressure_measurements + n
        /\ upc' = IF fails THEN "exit_exc" ELSE "exit"
        /\ log' = log \o UsbSent("CYCLES", ~fails)
    /\ UNCHANGED <<transport, update_id, not_usb, device, hid_closes,
                   patient_id, update>>

\* __exit__: the scope is left, normally or by an exception, which the
\* caller then reports
UsbExit ==
    /\ transport = "usb" /\ upc \in {"exit", "exit_exc"}
    /\ Close
    /\ upc' = "done"
    /\ log' = Append(log, Entry(IF upc = "exit_exc" THEN "error" ELSE "session_end",
                                "none", NoDevice))
    /\ UNCHANGED <<transport, update_id, not_usb, session_vars>>

\* close() called once more on the object after its scope was left
UsbCloseAgain ==
    /\ transport = "usb" /\ upc = "done"
    /\ Close
    /\ UNCHANGED <<transport, update_id, not_usb, session_vars, upc, log>>

UsbNext ==
    \/ UsbOpen
    \/ UsbSetDateTime
    \/ UsbGetId
    \/ UsbSetId
    \/ UsbGetData
    \/ UsbExit
    \/ UsbCloseAgain

\* the caller of usb_communication (bpm_usb.py, lines 272-274; bpm_gui.py,
\* post_communication, lines 239-257, called at line 290) reads
\* bpm.get_patient_id() inside the scope of the session. The class defines
\* get_patient_id twice, and the definition of lines 185-187 replaces that
\* of lines 89-90: the call sends CMD_GET_ID and decodes the response (None
\* after 15 rejected attempts: TypeError on the slice)
UsbAccessor ==
    /\ transport = "usb" /\ upc = "exit"
    /\ CountCmd(log, "write", "GET_ID") <= MaxReads
    /\ \E out \in {"returned", "None", "raise"} :
        /\ upc' = IF out = "returned" THEN "exit" ELSE "exit_exc"
        /\ log' = log \o UsbSent("GET_ID", out = "returned")
    /\ UNCHANGED <<transport, update_id, not_usb, device, hid_closes, session_vars>>

UsbCallerNext == UsbNext \/ UsbAccessor

\* ------------------------------------ Microlife_USB.send_command ----

MAX_RETRY == 15

MAX_CMD_WRITE == 7

CMD_SET_ID == 35

CMD_GET_ID == 36

\* the status byte that opens an accepted response
ACK == 6

\* the bytes a response is made of: ACK, the characters A and a, and 170,
\* which is no ASCII character and has the checksum characters AA
RespBytes == {6, 65, 97, 170}

Responses == UNION {[1 .. n -> RespBytes] : n \in 0 .. MaxResponse}

\* what is read after an argument was written: nothing, or one byte
Replies == {r \in Responses : Len(r) <= 1}

\* the arguments of a command: the last has the bytes set_id sets at the
\* head of its argument and is written in two pieces
Args == {<<0>>, <<1, 65>>, <<0, 1, 0, 1>>}

RECURSIVE Sum(_)
Sum(s) == IF s = <<>> THEN 0 ELSE Head(s) + Sum(Tail(s))

\* the character of a hexadecimal digit, as '%X' and as bytearray.hex() write it
UpperDigit(d) == IF d < 10 THEN 48 + d ELSE 55 + d

LowerDigit(d) == IF d < 10 THEN 48 + d ELSE 87 + d

\* '%2.2X' % n
FormatX(n) == <<UpperDigit(n \div 16), UpperDigit(n % 16)>>

\* bytearray(bytes).hex(), as character codes
RECURSIVE Hex(_)
Hex(bytes) ==
    IF bytes = <<>> THEN <<>>
    ELSE <<LowerDigit(Head(bytes) \div 16), LowerDigit(Head(bytes) % 16)>>
         \o Hex(Tail(bytes))

\* two bytes .decode(): the two characters, or one character of two bytes,
\* or a UnicodeDecodeError
Decoded(two) ==
    IF two[1] < 128 /\ two[2] < 128 THEN [error |-> FALSE, text |-> two]
    ELSE IF two[1] \in 194 .. 223 /\ two[2] \in 128 .. 191
         THEN [error |-> FALSE, text |-> <<(two[1] - 192) * 64 + two[2] - 128>>]
         ELSE [error |-> TRUE, text |-> <<>>]

\* send_command, lines 129 and 143: the response is not looked at further
Malformed(with_arg, r) ==
    IF with_arg
    THEN IF Len(r) # 1 THEN TRUE ELSE r[1] # ACK
    ELSE IF Len(r) <= 3 THEN TRUE ELSE r[1] # ACK

\* line 147
Checksum(r) == Sum(SubSeq(r, 2, Len(r) - 2)) % 256

\* the checksum compared in lower case
ChecksumAcceptedLower(r) ==
    <<LowerDigit(Checksum(r) \div 16), LowerDigit(Checksum(r) % 16)>>
        = Decoded(SubSeq(r, Len(r) - 1, Len(r))).text

\* line 148
ChecksumAccepted(r) ==
    FormatX(Checksum(r)) = Decoded(SubSeq(r, Len(r) - 1, Len(r))).text

\* the argument followed by the checksum of its bytes
EncodedPayloadSum(a) == Hex(a) \o Hex(<<Sum(a) % 256>>)

\* lines 131-134: the argument as it is written
Encoded(a) == Hex(a) \o Hex(<<Sum(Hex(a)) % 256>>)

\* lines 135-139: the pieces of at most MAX_CMD_WRITE bytes
RECURSIVE Pieces(_)
Pieces(s) ==
    IF s = <<>> THEN <<>>
    ELSE IF Len(s) > MAX_CMD_WRITE
         THEN <<SubSeq(s, 1, MAX_CMD_WRITE)>> \o Pieces(SubSeq(s, MAX_CMD_WRITE + 1, Len(s)))
         ELSE <<s>>

None == [none |-> TRUE, bytes |-> <<>>]

Bytes(b) == [none |-> FALSE, bytes |-> b]

\* no call of send_command
CmdIdle ==
    /\ spc = "idle"
    /\ usb_cmd = 0
    /\ has_arg = FALSE
    /\ arg = <<>>
    /\ retries = 0
    /\ response = <<>>
    /\ value = None
    /\ error = "none"
    /\ header_writes = 0
    /\ arg_writes = <<>>
    /\ reads = 0
    /\ only_malformed = TRUE

\* send_command is called, lines 119-121
CmdInit ==
    /\ spc = "loop"
    /\ usb_cmd \in {CMD_SET_ID, CMD_GET_ID}
    /\ has_arg = (usb_cmd = CMD_SET_ID)
    /\ arg \in IF has_arg THEN Args ELSE {<<>>}
    /\ retries = 0
    /\ response = <<>>
    /\ value = None
    /\ error = "none"
    /\ header_writes = 0
    /\ arg_writes = <<>>
    /\ reads = 0
    /\ only_malformed = TRUE

\* lines 122-126: the loop is entered again, the command bytes are written
\* and a response is read
Attempt ==
    /\ spc = "loop"
    /\ retries < MAX_RETRY
    /\ retries' = retries + 1
    /\ header_writes' = header_writes + 1
    /\ UNCHANGED <<attempt_vars, ntf_vars, chunk_vars, codec_vars>>

\* lines 129-130 and 143-144: the response is malformed, continue
Retry(r) ==
    /\ Attempt
    /\ Malformed(has_arg, r)
    /\ reads' = reads + 1
    /\ UNCHANGED <<spc, usb_cmd, has_arg, arg, response, value, error,
                   arg_writes, only_malformed>>

\* lines 147-149: the checksum is right, the response is returned without
\* its first byte and its checksum
ReturnPayload(r) ==
    /\ Attempt
    /\ ~has_arg
    /\ ~Malformed(has_arg, r)
    /\ ~Decoded(SubSeq(r, Len(r) - 1, Len(r))).error
    /\ ChecksumAccepted(r)
    /\ reads' = reads + 1
    /\ response' = r
    /\ only_malformed' = FALSE
    /\ value' = Bytes(SubSeq(r, 2, Len(r) - 2))
    /\ spc' = "returned"
    /\ UNCHANGED <<usb_cmd, has_arg, arg, error, arg_writes>>

\* lines 148-152: the checksum field is no text, or it is not the checksum:
\* decode() raises, or the call of prnt with the keyword file, which neither
\* print's wrapper nor show_message accepts
ChecksumMismatch(r) ==
    /\ Attempt
    /\ ~has_arg
    /\ ~Malformed(has_arg, r)
    /\ \/ Decoded(SubSeq(r, Len(r) - 1, Len(r))).error
       \/ ~ChecksumAccepted(r)
    /\ reads' = reads + 1
    /\ response' = r
    /\ only_malformed' = FALSE
    /\ error' = IF Decoded(SubSeq(r, Len(r) - 1, Len(r))).error
                THEN "UnicodeDecodeError" ELSE "TypeError"
    /\ spc' = "raised"
    /\ UNCHANGED <<usb_cmd, has_arg, arg, value, arg_writes>>

\* lines 128-140: the command was acknowledged, the argument is written and
\* what is read next is returned
SendArg(r) ==
    /\ Attempt
    /\ has_arg
    /\ ~Malformed(has_arg, r)
    /\ reads' = reads + 2
    /\ response' = r
    /\ only_malformed' = FALSE
    /\ arg_writes' = Pieces(Encoded(arg))
    /\ \E r2 \in Replies : value' = Bytes(r2)
    /\ spc' = "returned"
    /\ UNCHANGED <<usb_cmd, has_arg, arg, error>>

\* lines 135-137 with USB_IO.write, lines 48 and 53: the device took fewer
\* bytes of a piece of the argument
ArgWriteFails(r) ==
    /\ Attempt
    /\ has_arg
    /\ ~Malformed(has_arg, r)
    /\ reads' = reads + 1
    /\ response' = r
    /\ only_malformed' = FALSE
    /\ \E n \in 1 .. Len(Pieces(Encoded(arg))) :
           arg_writes' = SubSeq(Pieces(Encoded(arg)), 1, n)
    /\ error' = "AssertionError"
    /\ spc' = "raised"
    /\ UNCHANGED <<usb_cmd, has_arg, arg, value>>

\* a write of the command bytes whose failure is noted and retried
UsbWriteRetried ==
    /\ Attempt
    /\ error' = "AssertionError"
    /\ UNCHANGED <<spc, usb_cmd, has_arg, arg, response, value, arg_writes, reads,
                   only_malformed>>

\* line 125 with USB_IO.write, lines 48 and 53: the device took fewer of
\* the command bytes
UsbWriteFails ==
    /\ Attempt
    /\ error' = "AssertionError"
    /\ spc' = "raised"
    /\ UNCHANGED <<usb_cmd, has_arg, arg, response, value, arg_writes, reads,
                   only_malformed>>

\* line 122, retries = MAX_RETRY: the loop ends and so does the function,
\* which returns None
Exhausted ==
    /\ spc = "loop"
    /\ retries >= MAX_RETRY
    /\ value' = None
    /\ spc' = "returned"
    /\ UNCHANGED <<usb_cmd, has_arg, arg, retries, response, error,
                   header_writes, arg_writes, reads, only_malformed,
                   attempt_vars, ntf_vars, chunk_vars, codec_vars>>

UsbCmdNext ==
    \/ \E r \in Responses :
        \/ Retry(r)
        \/ ReturnPayload(r)
        \/ ChecksumMismatch(r)
        \/ SendArg(r)
        \/ ArgWriteFails(r)
    \/ UsbWriteFails
    \/ Exhausted

\* --------------- Microlife_BTLE.characteristic_notification, in bytes ----

\* the bytes a notification is made of: M and : (the magic), 0 and 2 (the
\* length field and a payload), and 137, the checksum of M : 0 2 0
NotifyBytes == {0, 2, 58, 77, 137}

\* the values of a notification: every single byte, and some longer ones
Values ==
    {<<b>> : b \in NotifyBytes}
    \cup {<<77, 58>>, <<77, 58, 0, 2>>, <<0, 137>>, <<0, 137, 77>>,
          <<77, 58, 0, 2, 0, 137>>}

NoCall == [acc |-> <<>>, outcome |-> "none", result |-> <<>>, event |-> FALSE,
           aliased |-> FALSE]

\* line 298: received_value[0:2] == b'M:'
Magic(acc) == Len(acc) >= 2 /\ acc[1] = 77 /\ acc[2] = 58

\* the declared length taken as the length of the whole response
ExpectedLengthTotal(acc) == acc[3] * 256 + acc[4]

\* lines 299-300
ExpectedLength(acc) == acc[3] * 256 + acc[4] + 4

\* line 303: sum(received_value[:-1]) % 256
NotifyChecksum(acc) == Sum(SubSeq(acc, 1, Len(acc) - 1)) % 256

\* the callback without the assertions on the length and the checksum
OutcomeUnchecked(acc) ==
    IF ~Magic(acc) THEN "AssertionError"
    ELSE IF Len(acc) < 4 THEN "IndexError"
    ELSE IF Len(acc) < ExpectedLength(acc) THEN "pending"
    ELSE "complete"

\* lines 297-306: what the callback does with the buffer acc it extended
Outcome(acc) ==
    IF ~Magic(acc) THEN "AssertionError"
    ELSE IF Len(acc) < 4 THEN "IndexError"
    ELSE IF Len(acc) < ExpectedLength(acc) THEN "pending"
    ELSE IF Len(acc) # ExpectedLength(acc) THEN "AssertionError"
    ELSE IF NotifyChecksum(acc) # acc[Len(acc)] THEN "AssertionError"
    ELSE "complete"

\* line 304: received_value[4:-1]
Payload(acc) == SubSeq(acc, 5, Len(acc) - 1)

\* set_date_and_time, line 292, and set_id, line 273: the result that the
\* two commands assert
Acknowledges(r) == r = <<129>>

\* two responses of the device to SET_DATETIME or SET_ID: with the length
\* field 5 and the last byte 0x86, and with the length field 2 and the last
\* byte 0x0A
ScenarioA == <<77, 58, 0, 5, 129, 134>>

ScenarioAck == <<77, 58, 0, 2, 129, 10>>

\* the notifications that deliver a response f whole or in two parts
Parts(f) ==
    {f} \cup {SubSeq(f, 1, k) : k \in 1 .. Len(f) - 1}
        \cup {SubSeq(f, k + 1, Len(f)) : k \in 1 .. Len(f) - 1}

\* no Microlife_BTLE object
NtfIdle ==
    /\ nv_received = <<>>
    /\ nv_result = <<>>
    /\ nv_aliased = FALSE
    /\ nv_event = FALSE
    /\ nv_last = [NoCall EXCEPT !.outcome = "idle"]

\* Microlife_BTLE.__init__, lines 201-203
NtfInit ==
    /\ nv_received = <<>>
    /\ nv_result = <<>>
    /\ nv_aliased = FALSE
    /\ nv_event = FALSE
    /\ nv_last = NoCall

\* characteristic_notification(value), lines 296-306
Notification(v) ==
    LET acc == nv_received \o v
    IN /\ Len(acc) <= MaxReceived
       /\ nv_last' = [acc |-> acc, outcome |-> Outcome(acc), result |-> nv_result,
                      event |-> nv_event, aliased |-> nv_aliased]
       /\ IF Outcome(acc) = "complete"
          THEN /\ nv_result' = Payload(acc)
               /\ nv_received' = <<>>
               /\ nv_aliased' = FALSE
               /\ nv_event' = TRUE
          ELSE /\ nv_received' = acc
               /\ nv_result' = IF nv_aliased THEN acc ELSE nv_result
               /\ UNCHANGED <<nv_aliased, nv_event>>
       /\ UNCHANGED <<attempt_vars, cmd_vars, chunk_vars, codec_vars>>

\* send_command, line 321: both buffers become one new empty bytearray
SendCommandResets ==
    /\ nv_received' = <<>>
    /\ nv_result' = <<>>
    /\ nv_aliased' = TRUE
    /\ nv_last' = NoCall
    /\ UNCHANGED <<nv_event, attempt_vars, cmd_vars, chunk_vars, codec_vars>>

\* send_command, lines 328-334: the wait ends, the event is cleared and
\* result is returned
SendCommandReturns ==
    /\ nv_event
    /\ nv_event' = FALSE
    /\ nv_last' = NoCall
    /\ UNCHANGED <<nv_received, nv_result, nv_aliased, attempt_vars, cmd_vars,
                   chunk_vars, codec_vars>>

NotifyNext ==
    \/ \E v \in Values : Notification(v)
    \/ SendCommandResets
    \/ SendCommandReturns

\* ------------------------------------------ the chunking of the writes ----

\* split_write_cmd, line 310
MAX_WRITE_LEN == 20

\* a command or an argument stream of n bytes, each byte its position
Ramp(n) == [i \in 1 .. n |-> i]

\* `while cmd:` a list that is not empty (None and [] end the loop)
Truthy(x) == ~x.none /\ x.bytes # <<>>

\* split_write_cmd with the second part starting one byte late
SplitSkips(c) ==
    IF Len(c) > MAX_WRITE_LEN
    THEN [cmd |-> SubSeq(c, 1, MAX_WRITE_LEN),
          next_cmd |-> Bytes(SubSeq(c, MAX_WRITE_LEN + 2, Len(c)))]
    ELSE [cmd |-> c, next_cmd |-> None]

\* Microlife_BTLE.split_write_cmd, lines 309-316: (cmd, next_cmd)
split_write_cmd(c) ==
    IF Len(c) > MAX_WRITE_LEN
    THEN [cmd |-> SubSeq(c, 1, MAX_WRITE_LEN),
          next_cmd |-> Bytes(SubSeq(c, MAX_WRITE_LEN + 1, Len(c)))]
    ELSE [cmd |-> c, next_cmd |-> None]

\* the sequences of a sequence of sequences, joined in order
RECURSIVE Concat(_)
Concat(ss) == IF ss = <<>> THEN <<>> ELSE Head(ss) \o Concat(Tail(ss))

\* no write loop
ChunksIdle ==
    /\ engine = "none"
    /\ stream = <<>>
    /\ rest = None
    /\ written = <<>>
    /\ wpc = "none"

\* send_command was called with the bytes to write: the command (wireless,
\* after line 321) or the encoded argument with its checksum (USB, after
\* line 134)
ChunksInit ==
    /\ engine \in {"bt", "usb"}
    /\ stream \in {Ramp(n) : n \in 0 .. MaxLen}
    /\ rest = Bytes(stream)
    /\ written = <<>>
    /\ wpc = "loop"

\* Microlife_BTLE.send_command, lines 322-326: one turn of `while cmd`
BtWrite ==
    /\ engine = "bt" /\ wpc = "loop"
    /\ Truthy(rest)
    /\ written' = Append(written, split_write_cmd(rest.bytes).cmd)
    /\ rest' = split_write_cmd(rest.bytes).next_cmd
    /\ UNCHANGED <<engine, stream, wpc, attempt_vars, cmd_vars, ntf_vars,
                   codec_vars>>

\* line 322: cmd is None or empty, the loop is left
BtLoopEnds ==
    /\ engine = "bt" /\ wpc = "loop"
    /\ ~Truthy(rest)
    /\ wpc' = "done"
    /\ UNCHANGED <<engine, stream, rest, written, attempt_vars, cmd_vars, ntf_vars,
                   codec_vars>>

\* Microlife_USB.send_command, lines 135-139: one turn of `while len(arg)`
UsbWrite ==
    /\ engine = "usb" /\ wpc = "loop"
    /\ Len(rest.bytes) # 0
    /\ written' = Append(written, IF Len(rest.bytes) > MAX_CMD_WRITE
                                  THEN SubSeq(rest.bytes, 1, MAX_CMD_WRITE)
                                  ELSE rest.bytes)
    /\ rest' = Bytes(IF Len(rest.bytes) > MAX_CMD_WRITE
                     THEN SubSeq(rest.bytes, MAX_CMD_WRITE + 1, Len(rest.bytes))
                     ELSE <<>>)
    /\ UNCHANGED <<engine, stream, wpc, attempt_vars, cmd_vars, ntf_vars,
                   codec_vars>>

\* line 135: arg is empty, the loop is left
UsbLoopEnds ==
    /\ engine = "usb" /\ wpc = "loop"
    /\ Len(rest.bytes) = 0
    /\ wpc' = "done"
    /\ UNCHANGED <<engine, stream, rest, written, attempt_vars, cmd_vars, ntf_vars,
                   codec_vars>>

ChunksNext == BtWrite \/ BtLoopEnds \/ UsbWrite \/ UsbLoopEnds

\* ------------------------------------- calls of the codec functions ----

\* the function has not returned yet
Pending == [done |-> FALSE, raised |-> "none", value |-> <<>>]

\* the function returned v
Done(v) == [done |-> TRUE, raised |-> "none", value |-> v]

\* the function raised the exception e
Raised(e) == [done |-> TRUE, raised |-> e, value |-> <<>>]

Call(f, a) == [fn |-> f, arg |-> a]

\* no call
CodecIdle ==
    /\ call = Call("none", <<>>)
    /\ ret = Pending

\* a call that has not returned is the only thing that can take a step
Calling(f) == call.fn = f /\ ~ret.done

\* the call returns r
Returns(r) ==
    /\ ret' = r
    /\ UNCHANGED <<call, attempt_vars, cmd_vars, ntf_vars, chunk_vars>>

\* ------------------------------- the commands of the wireless engine ----

\* Microlife_BTLE, lines 186-188
BTLE_CMD_DISCONNECT == <<77, 255, 0, 2, 4, 82>>

BTLE_CMD_GET_ID == <<77, 255, 0, 2, 5, 83>>

BTLE_CMD_GET_MEASUREMENTS == <<77, 255, 0, 9, 0, 0, 0, 0, 0, 0, 0, 253, 82>>

StaticCommands ==
    {BTLE_CMD_DISCONNECT, BTLE_CMD_GET_ID, BTLE_CMD_GET_MEASUREMENTS}

\* line 181
MAX_ID_LENGTH == 20

\* set_id, lines 265-266: the command without identifier and checksum
SetIdTemplate == <<77, 255, 0, 24, 6, 253>> \o [i \in 1 .. 20 |-> 0] \o <<216>>

\* lines 267-268
Truncated(id, n) == IF Len(id) > n THEN SubSeq(id, 1, n) ELSE id

\* the identifier written from position 6 on, never cut to MAX_ID_LENGTH
set_id_cmd_uncut(id) ==
    LET body == [i \in 1 .. (IF Len(id) > 21 THEN 6 + Len(id) ELSE 27) |->
                    IF i > 6 /\ i <= 6 + Len(id) THEN id[i - 6]
                    ELSE SetIdTemplate[i]]
    IN  body \o <<Sum(body) % 256>>

\* set_id, lines 265-271: the command for the identifier id, a sequence of
\* character codes
set_id_cmd(id) ==
    LET t == Truncated(id, MAX_ID_LENGTH)
        body == [i \in 1 .. Len(SetIdTemplate) |->
                    IF i > 6 /\ i <= 6 + Len(t) THEN t[i - 6]
                    ELSE SetIdTemplate[i]]
    IN  body \o <<Sum(body) % 256>>

\* set_date_and_time, lines 288-291: the command for the date and time
\* dt = <<year, month, day, hour, minute, second>>
set_time_cmd(dt) ==
    LET body == <<77, 255, 0, 8, 13, dt[1] - 2000, dt[2], dt[3], dt[4], dt[5],
                  dt[6]>>
    IN  body \o <<Sum(body) % 256>>

\* identifiers of up to MaxIdLen characters: one character repeated (space,
\* digits, letters, and two characters beyond ASCII), and the characters
\* from '!' on in order
IdInputs ==
    {[i \in 1 .. n |-> c] : n \in 0 .. MaxIdLen,
                            c \in {32, 48, 57, 65, 90, 97, 122, 126, 233, 255}}
        \cup {[i \in 1 .. n |-> 32 + i] : n \in 0 .. MaxIdLen}

\* values of datetime.now()
DateTimes ==
    {<<y, mo, d, h, mi, sec>> : y \in {2000, 2023, 2026, 2099}, mo \in {1, 12},
                               d \in {1, 31}, h \in {0, 23}, mi \in {0, 59},
                               sec \in {0, 59}}

\* get_id, get_data and run_client hand a class constant to send_command
SendsStatic == Calling("static") /\ Returns(Done(call.arg))

\* set_id hands set_id_cmd to send_command
SetIdSends == Calling("set_id") /\ Returns(Done(set_id_cmd(call.arg)))

\* set_date_and_time hands set_time_cmd to send_command
SetDateTimeSends ==
    Calling("set_date_and_time") /\ Returns(Done(set_time_cmd(call.arg)))

CommandsNext == SendsStatic \/ SetIdSends \/ SetDateTimeSends

\* ------------------------------- the hexadecimal text of the USB engine ----

\* decode_hexdigit that takes the upper case digits only
decode_hexdigit_upper(byte) ==
    IF byte >= 48 /\ byte <= 57 THEN byte - 48
    ELSE IF byte >= 65 /\ byte <= 70 THEN byte - 65 + 10
    ELSE -1

\* Microlife_USB.decode_hexdigit, lines 155-162: 0 .. 15, or -1 for the
\* exception "not a hex digit"
decode_hexdigit(byte) ==
    IF byte >= 48 /\ byte <= 57 THEN byte - 48
    ELSE IF byte >= 65 /\ byte <= 70 THEN byte - 65 + 10
    ELSE IF byte >= 97 /\ byte <= 102 THEN byte - 97 + 10
    ELSE -1

\* Microlife_USB.decode_hexnum, lines 165-170: the number, or -1 when
\* decode_hexdigit raised
RECURSIVE decode_hexnum(_)
decode_hexnum(bytes) ==
    IF bytes = <<>> THEN 0
    ELSE LET word == decode_hexnum(SubSeq(bytes, 1, Len(bytes) - 1))
             digit == decode_hexdigit(bytes[Len(bytes)])
         IN  IF word = -1 \/ digit = -1 THEN -1 ELSE word * 16 + digit

\* decode_hexnum applied to the pairs of characters of text, in order
Pairwise(text) ==
    [i \in 1 .. Len(text) \div 2 |-> decode_hexnum(SubSeq(text, 2 * i - 1, 2 * i))]

\* argument payloads: every single byte, and sequences of every length up to
\* MaxPayload
Payloads ==
    {<<b>> : b \in 0 .. 255}
        \cup {[i \in 1 .. n |-> (i * 37 + n) % 256] : n \in 0 .. MaxPayload}

\* send_command, lines 131-134, encodes its argument
Encodes == Calling("encode") /\ Returns(Done(Encoded(call.arg)))

\* decode_hexdigit(byte)
DecodesDigit ==
    /\ Calling("decode_hexdigit")
    /\ Returns(IF decode_hexdigit(call.arg[1]) = -1 THEN Raised("Exception")
               ELSE Done(<<decode_hexdigit(call.arg[1])>>))

\* bytearray(arg).hex() decoded again, pair by pair
DecodesEncoded ==
    /\ Calling("decode_hexnum")
    /\ Returns(IF \E i \in 1 .. Len(call.arg) : Pairwise(Hex(call.arg))[i] = -1
               THEN Raised("Exception")
               ELSE Done(Pairwise(Hex(call.arg))))

HexNext == Encodes \/ DecodesDigit \/ DecodesEncoded

\* ------------------------------------ the USB measurement records ----

\* lines 61-62
FIRST_RECORD == 32

RECORD_LENGTH == 32

\* s[a:b] of Python, for 0 <= a <= b
Slice(s, a, b) ==
    IF a >= Len(s) THEN <<>> ELSE SubSeq(s, a + 1, IF b > Len(s) THEN Len(s) ELSE b)

\* '%2.2d' % n and '%d' % year, as character codes
TwoDigits(n) == <<48 + (n \div 10), 48 + (n % 10)>>

FourDigits(n) == TwoDigits(n \div 100) \o TwoDigits(n % 100)

\* the year 20yy for every yy
Century(yy) == 2000 + yy

\* the year that %y gives: 19yy from 69 on
Pivot(yy) == IF yy >= 69 THEN 1900 + yy ELSE 2000 + yy

\* datetime.strptime(text.decode(), '%y%m%d%H%M'), line 239, for a text of 10
\* characters or an empty one (a record is present whole or not at all):
\* the date, or ValueError (ok = FALSE). Each of the five fields has to
\* take two characters; only the day may have a space for its first digit
strptime(text) ==
    LET digit(c) == c >= 48 /\ c <= 57
        num(i) == (IF text[i] = 32 THEN 0 ELSE text[i] - 48) * 10 + text[i + 1] - 48
        year == Pivot(num(1))
        leap == year % 4 = 0 /\ (year % 100 # 0 \/ year % 400 = 0)
        days == IF num(3) = 2 THEN (IF leap THEN 29 ELSE 28)
                ELSE IF num(3) \in {4, 6, 9, 11} THEN 30 ELSE 31
        fail == [ok |-> FALSE, year |-> 0, month |-> 0, day |-> 0, hour |-> 0,
                 minute |-> 0]
    IN  IF Len(text) # 10 THEN fail
        ELSE IF \E i \in {1, 2, 3, 4, 6, 7, 8, 9, 10} : ~digit(text[i]) THEN fail
        ELSE IF ~(digit(text[5]) \/ text[5] = 32) THEN fail
        ELSE IF num(3) \notin 1 .. 12 \/ num(5) \notin 1 .. days
                \/ num(7) > 23 \/ num(9) > 59 THEN fail
        ELSE [ok |-> TRUE, year |-> year, month |-> num(3), day |-> num(5),
              hour |-> num(7), minute |-> num(9)]

\* get_data, lines 236-256, for one record: "skip" (continue), "raise"
\* (decode_hexnum raised) or the measurement appended
usb_record(record) ==
    LET dt == strptime(Slice(record, 0, 10))
        word == decode_hexnum(Slice(record, 16, 24))
    IN  IF ~dt.ok THEN [what |-> "skip", m |-> <<>>]
        ELSE IF word = -1 THEN [what |-> "raise", m |-> <<>>]
        ELSE [what |-> "append",
              m |-> <<FourDigits(dt.year) \o <<45>> \o TwoDigits(dt.month) \o <<45>>
                        \o TwoDigits(dt.day) \o <<32>> \o TwoDigits(dt.hour)
                        \o <<58>> \o TwoDigits(dt.minute),
                      word % 1024, (word \div 1024) % 1024,
                      (word \div 1048576) % 1024>>]

\* get_data with a loop that ends at the first record it cannot date
RECURSIVE usb_get_data_stops(_, _, _)
usb_get_data_stops(resp, k, n) ==
    IF k >= n THEN Done(<<>>)
    ELSE LET r == usb_record(Slice(resp, FIRST_RECORD + k * RECORD_LENGTH,
                                   FIRST_RECORD + (k + 1) * RECORD_LENGTH))
             later == usb_get_data_stops(resp, k + 1, n)
         IN  IF r.what = "raise" THEN Raised("Exception")
             ELSE IF r.what = "skip" THEN Done(<<>>)
             ELSE [later EXCEPT !.value = <<r.m>> \o @]

\* get_data, lines 223-256, after send_command returned response: the
\* measurements appended to blood_pressure_measurements, and the exception
\* that ended the loop, if any
RECURSIVE usb_get_data_from(_, _, _)
usb_get_data_from(resp, k, n) ==
    IF k >= n THEN Done(<<>>)
    ELSE LET r == usb_record(Slice(resp, FIRST_RECORD + k * RECORD_LENGTH,
                                   FIRST_RECORD + (k + 1) * RECORD_LENGTH))
             later == usb_get_data_from(resp, k + 1, n)
         IN  IF r.what = "raise" THEN Raised("Exception")
             ELSE IF r.what = "skip" THEN later
             ELSE [later EXCEPT !.value = <<r.m>> \o @]

usb_get_data(resp) ==
    IF decode_hexnum(Slice(resp, 0, 4)) = -1 THEN Raised("Exception")
    ELSE usb_get_data_from(resp, 0, decode_hexnum(Slice(resp, 0, 4)))

\* a record of the device: the date text, 6 characters, the word in 8
\* hexadecimal digits, 8 characters
Record(date, word) ==
    date \o [i \in 1 .. 6 |-> 48]
         \o [i \in 1 .. 8 |-> UpperDigit((word \div (16 ^ (8 - i))) % 16)]
         \o [i \in 1 .. 8 |-> 48]

Packed(sys, dia, pulse) == sys + dia * 1024 + pulse * 1048576

\* date texts: the fields in and out of range, an unused slot, a day written
\* with a space, text that is not digits
DateTexts ==
    {TwoDigits(yy) \o TwoDigits(mo) \o TwoDigits(d) \o TwoDigits(h) \o TwoDigits(mi) :
        yy \in {0, 23, 24, 68, 69, 99}, mo \in {0, 1, 2, 12, 13},
        d \in {0, 1, 29, 30, 31}, h \in {12, 23, 24}, mi \in {30, 59, 60}}
    \cup {[i \in 1 .. 10 |-> c] : c \in {32, 48, 70, 255}}
    \cup {<<50, 51, 48, 49, 32, 49, 49, 50, 51, 48>>}

\* the records decoded one by one: every date text with one triple, and one
\* date with every triple of the values 0, 65, 80, 120, 512, 1023
Records ==
    {Record(date, Packed(120, 80, 65)) : date \in DateTexts}
    \cup {Record(<<50, 51, 48, 49, 48, 49, 49, 50, 51, 48>>, Packed(sys, dia, pulse)) :
            sys \in {0, 65, 80, 120, 512, 1023}, dia \in {0, 65, 80, 120, 512, 1023},
            pulse \in {0, 65, 80, 120, 512, 1023}}

\* the records a response is made of: two measurements, an unused slot, a
\* date that is no date, and a dated record whose word is no number
Slots ==
    <<Record(<<50, 51, 48, 49, 48, 49, 49, 50, 51, 48>>, Packed(120, 80, 65)),
      Record(<<50, 52, 49, 50, 51, 49, 50, 51, 53, 57>>, Packed(135, 85, 70)),
      [i \in 1 .. 32 |-> 48],
      Record(<<50, 51, 48, 50, 51, 48, 49, 50, 51, 48>>, Packed(1, 2, 3)),
      [Record(<<50, 51, 48, 49, 48, 49, 49, 50, 51, 48>>, 0) EXCEPT ![20] = 71]>>

\* the responses to CYCLES: a header that declares n cycles (or whose count
\* is no number, n = -1), followed by the records chosen by kinds
Response(n, kinds) ==
    (IF n = -1 THEN <<48, 48, 48, 71>>
     ELSE <<48, 48, 48, UpperDigit(n)>>)
        \o [i \in 1 .. 28 |-> 48]
        \o Concat([i \in 1 .. Len(kinds) |-> Slots[kinds[i]]])

RECURSIVE Kinds(_)
Kinds(m) ==
    IF m = 0 THEN {<<>>}
    ELSE Kinds(m - 1) \cup {Append(k, x) : k \in {j \in Kinds(m - 1) : Len(j) = m - 1},
                                           x \in 1 .. Len(Slots)}

\* one turn of the loop of get_data on one record
DecodesRecord ==
    /\ Calling("record")
    /\ Returns(IF usb_record(call.arg).what = "raise" THEN Raised("Exception")
               ELSE IF usb_record(call.arg).what = "skip" THEN Done(<<>>)
               ELSE Done(<<usb_record(call.arg).m>>))

\* get_data on a response
UsbGetsData ==
    /\ Calling("get_data")
    /\ Returns(usb_get_data(Response(call.arg[1], call.arg[2])))

UsbDataNext == DecodesRecord \/ UsbGetsData

\* --------------------------------- the wireless measurement records ----

\* '%2.2d' % n for a byte: two digits or more
AtLeastTwoDigits(n) ==
    IF n < 100 THEN TwoDigits(n) ELSE <<48 + (n \div 100)>> \o TwoDigits(n % 100)

\* get_data of Microlife_BTLE, lines 253-257, for the 8 bytes of one record
bt_record(r) ==
    <<FourDigits(r[4] + 2000) \o <<45>> \o AtLeastTwoDigits(r[5]) \o <<45>>
        \o AtLeastTwoDigits(r[6]) \o <<32>> \o AtLeastTwoDigits(r[7]) \o <<58>>
        \o AtLeastTwoDigits(r[8]),
      r[1], r[2], r[3]>>

\* get_data with records that follow each other without a gap
RECURSIVE bt_get_data_dense(_, _)
bt_get_data_dense(res, i) ==
    IF i >= Len(res) THEN Done(<<>>)
    ELSE IF Len(Slice(res, i, i + 8)) # 8 THEN Raised("ValueError")
    ELSE [bt_get_data_dense(res, i + 8) EXCEPT
              !.value = <<bt_record(Slice(res, i, i + 8))>> \o @]

\* get_data of Microlife_BTLE, lines 252-261, from offset i of the result
\* on: the measurements appended, and ValueError where result[i:i+8] has
\* fewer than the 8 values the assignment of line 253 unpacks
RECURSIVE bt_get_data_from(_, _)
bt_get_data_from(res, i) ==
    IF i >= Len(res) THEN Done(<<>>)
    ELSE IF Len(Slice(res, i, i + 8)) # 8 THEN Raised("ValueError")
    ELSE [bt_get_data_from(res, i + 10) EXCEPT
              !.value = <<bt_record(Slice(res, i, i + 8))>> \o @]

\* the records the device sends, 10 bytes each
BtRecords ==
    <<<<120, 80, 65, 23, 1, 1, 12, 30, 0, 0>>,
      <<135, 85, 70, 24, 12, 31, 23, 59, 1, 2>>,
      <<255, 0, 200, 99, 255, 9, 7, 5, 3, 4>>>>

\* the results of GET_MEASUREMENTS: the first n bytes of 38 bytes and the
\* records that follow them, beginning with record s
BtResult(n, s) ==
    Slice([i \in 1 .. 38 |-> (i * 7 + s) % 256]
              \o Concat([k \in 1 .. (MaxResult \div 10) |->
                            BtRecords[((s + k) % Len(BtRecords)) + 1]]),
          0, n)

\* get_data on the result that send_command returned
BtGetsData ==
    /\ Calling("bt_get_data")
    /\ Returns(bt_get_data_from(call.arg, 38))

\* ------------------------------------------- the patient identifiers ----

\* line 59 of bpm_usb.py
ID_LENGTH == 11

\* str.strip() on a string of the characters 0 .. 255: the white space of
\* Python at both ends is removed
strip(text) ==
    LET space == (9 .. 13) \cup (28 .. 32) \cup {133, 160}
        kept == {i \in 1 .. Len(text) : text[i] \notin space}
    IN  IF kept = {} THEN <<>>
        ELSE SubSeq(text, CHOOSE i \in kept : \A j \in kept : i <= j,
                          CHOOSE i \in kept : \A j \in kept : i >= j)

\* user_name that keeps the printable characters ' ' .. '~' only
user_name_printable(bytes) ==
    strip(SelectSeq(bytes, LAMBDA b : b >= 32 /\ b < 127))

\* Microlife_BTLE.user_name, lines 221-223
user_name(bytes) ==
    strip(SelectSeq(bytes, LAMBDA b : b >= 32 /\ b < 128))

\* Microlife_BTLE.get_id, lines 275-283, on the result of send_command;
\* result[1] of a result of fewer than 2 bytes raises IndexError
bt_get_id(res) ==
    IF Len(res) < 2 THEN Raised("IndexError")
    ELSE IF res[2] = 1 THEN Done(user_name(Slice(res, 2, MAX_ID_LENGTH + 2)))
    ELSE Done(user_name(Slice(res, 23, MAX_ID_LENGTH + 23)))

\* Microlife_USB.get_id, lines 173-182: the characters decoded up to the
\* first pair that is no hexadecimal number (the exception ends in the
\* finally clause) or no letter or digit
RECURSIVE usb_get_id(_)
usb_get_id(data) ==
    IF data = <<>> THEN <<>>
    ELSE LET ch == decode_hexnum(Slice(data, 0, 2))
         IN  IF ch < 32 \/ ch > 126
                    \/ ch \notin (48 .. 57) \cup (65 .. 90) \cup (97 .. 122)
             THEN <<>>
             ELSE <<ch>> \o usb_get_id(Slice(data, 2, Len(data)))

\* Microlife_USB.get_patient_id, lines 185-187, on the response of
\* send_command
get_patient_id(resp) == usb_get_id(Slice(resp, 0, 2 * ID_LENGTH))

\* Microlife_USB.set_id, lines 190-197: the argument handed to send_command
usb_set_id_arg(id) ==
    LET t == Truncated(id, ID_LENGTH)
    IN  [i \in 1 .. 32 |-> IF i \in {2, 4} THEN 1
                           ELSE IF i > 4 /\ i <= 4 + Len(t) THEN t[i - 4]
                           ELSE 0]

\* the contents of an identifier field of n bytes: the identifiers that
\* set_id is given, and fields with spaces around a name, with control
\* characters and with the character 127
IdFields(n) ==
    {[i \in 1 .. n |-> IF i <= Len(id) THEN id[i] ELSE 0] :
        id \in IdInputs \cup {<<32, 32, 65, 110, 110, 32, 66, 32, 32>>,
                              <<9, 65, 127, 66, 10, 160>>,
                              <<127, 127, 127>>, <<32, 127, 32>>}}

\* results of the wireless GET_ID: a byte, the user, the field of user 1, a
\* byte, the field of user 2; whole, or cut short
BtIdResults ==
    {Slice(<<0, u>> \o f \o <<0>> \o g \o <<0>>, 0, n) :
        u \in {1, 2}, f \in IdFields(MAX_ID_LENGTH),
        g \in {[i \in 1 .. 20 |-> 0], [i \in 1 .. 20 |-> 64 + i]},
        n \in {0, 1, 12, 33, 44}}

\* responses of the USB GET_ID: the hexadecimal text of a field of 16
\* bytes, whole, cut short, or with a character that is no digit
UsbIdResponses ==
    {Slice(Hex(f), 0, n) : f \in IdFields(16), n \in {0, 5, 32}}
        \cup {[Hex(f) EXCEPT ![6] = 71] : f \in IdFields(16)}

\* get_id of Microlife_BTLE on a result
BtGetsId == Calling("bt_get_id") /\ Returns(bt_get_id(call.arg))

\* get_patient_id of Microlife_USB on a response
UsbGetsId == Calling("usb_get_id") /\ Returns(Done(get_patient_id(call.arg)))

\* set_id of Microlife_USB hands its argument to send_command
UsbSetsId == Calling("usb_set_id") /\ Returns(Done(usb_set_id_arg(call.arg)))

IdsNext == BtGetsId \/ UsbGetsId \/ SetIdSends \/ UsbSetsId

\* ------------------------------------------ the candidates of a round ----

\* str.lower() on an address, a sequence of character codes
Lower(addr) ==
    [i \in 1 .. Len(addr) |-> IF addr[i] \in 65 .. 90 THEN addr[i] + 32 ELSE addr[i]]

\* run with a test that compares the address as the scan gave it
run_devices_exact(scanned, paired) ==
    SelectSeq(scanned, LAMBDA d : ~paired.known \/ d \in paired.addrs)

\* run, lines 96-98: the devices of the scan that are kept; paired is what
\* paired_bluetooth_devices returned, a set of addresses or None (not known)
run_devices(scanned, paired) ==
    SelectSeq(scanned, LAMBDA d : ~paired.known \/ Lower(d) \in paired.addrs)

\* addresses as a scan gives them, "A1", "b2", "C3", and as
\* paired_bluetooth_devices gives them, in lower case (lines 28 and 57-58):
\* "a1", "b2", "c3", "d4"
Addresses == {<<65, 49>>, <<98, 50>>, <<67, 51>>}

PairedAddresses == {<<97, 49>>, <<98, 50>>, <<99, 51>>, <<100, 52>>}

\* run, lines 92-111: the devices kept, the message printed and the
\* addresses for which an isbpm task is created
RunSelects ==
    /\ Calling("run")
    /\ LET ds == run_devices(call.arg[1], call.arg[2])
       IN  Returns(Done([devices |-> ds,
                         message |-> IF ds # <<>> THEN "contacting" ELSE "not found",
                         tasks |-> ds]))

\* ------------------------------------------------ the USB reports ----

\* read with the whole first byte of a report taken as its length
RECURSIVE usb_read_unmasked(_)
usb_read_unmasked(reports) ==
    IF reports = <<>> \/ Head(reports) = <<>> THEN <<>>
    ELSE Slice(Head(reports), 1, Head(reports)[1] + 1)
             \o usb_read_unmasked(Tail(reports))

\* USB_IO.read, lines 30-39: reports are what device.read returns call
\* after call, an empty one when nothing arrived within the timeout; when
\* the reports are used up the next read is empty
RECURSIVE usb_read(_)
usb_read(reports) ==
    IF reports = <<>> \/ Head(reports) = <<>> THEN <<>>
    ELSE Slice(Head(reports), 1, (Head(reports)[1] % 16) + 1)
             \o usb_read(Tail(reports))

\* what device.read(8, 100) returns: nothing, reports of 8 bytes with 3, 0,
\* 7 and 15 for their length, one with bits set above the length, and a
\* report of 2 bytes
HidReports ==
    {<<>>, <<3, 65, 66, 67, 1, 2, 3, 4>>, <<0, 9, 9, 9, 9, 9, 9, 9>>,
     <<7, 48, 49, 50, 51, 52, 53, 54>>, <<15, 70, 71, 72, 73, 74, 75, 76>>,
     <<147, 97, 98, 99, 5, 6, 7, 8>>, <<2, 33>>}

\* read assembles a response
UsbReads == Calling("read") /\ Returns(Done(usb_read(call.arg)))

\* ------------------------------------------ the identifier of a session ----

\* run_client, lines 236-242, in a session that updates the identifier:
\* self.patient_id is the identifier supplied (update_id, or what the
\* callback returned) and set_id(self.patient_id) builds the command
BtUpdates ==
    /\ Calling("bt_update")
    /\ Returns(Done([patient_id |-> call.arg, command |-> set_id_cmd(call.arg)]))

\* usb_communication, lines 102-108, likewise: set_id(self.patient_id)
\* builds the argument of CMD_SET_ID
UsbUpdates ==
    /\ Calling("usb_update")
    /\ Returns(Done([patient_id |-> call.arg, command |-> usb_set_id_arg(call.arg)]))

UpdateNext == BtUpdates \/ UsbUpdates

\* ------------------------------------------ the measurements table ----

\* the patients whose measurements are stored
PatientIds == {"anna", "ben"}

\* measurements as get_data builds them, (date, sys, dia, pulse) with the
\* date as text to the minute: two of the same minute with different
\* readings, and one of another minute
Measurements ==
    { <<"2024-01-01 08:00", 120, 80, 60>>,
      <<"2024-01-01 08:00", 135, 85, 70>>,
      <<"2024-01-02 08:00", 118, 79, 64>> }

\* the lists a caller passes: post_communication and the command-line tools
\* call insert_measurements only with a list that is not empty
MeasurementLists == UNION {[1 .. n -> Measurements] : n \in 1 .. MaxMeasurements}

\* open_db, lines 32-52: the table measurements of a database that was just
\* created (CREATE TABLE IF NOT EXISTS), and nothing inserted
open_db == [rows |-> <<>>, no_inserted |-> 0]

\* the row that lines 112-115 insert for the measurement m of the patient pid
Row(pid, m) ==
    [patient_id |-> pid, date |-> m[1], sys |-> m[2], dia |-> m[3], pulse |-> m[4]]

\* lines 107-108: SELECT * FROM measurements WHERE date=? AND patient_id=?
selected(rows, date, pid) ==
    {i \in 1 .. Len(rows) : rows[i].date = date /\ rows[i].patient_id = pid}

\* insert_measurements with a SELECT that sees only the rows that were
\* stored before the call
insert_committed_only(db, pid, measurements) ==
    LET new == SelectSeq(measurements,
                         LAMBDA m : selected(db.rows, m[1], pid) = {})
    IN  [rows |-> db.rows \o [i \in 1 .. Len(new) |-> Row(pid, new[i])],
         no_inserted |-> db.no_inserted + Len(new)]

\* insert_measurements, lines 106-115: the loop over the measurements. The
\* SELECT runs on the connection that inserts, so it sees the rows this
\* call has inserted already
RECURSIVE insert_measurements(_, _, _)
insert_measurements(db, pid, measurements) ==
    IF measurements = <<>> THEN db
    ELSE LET m == Head(measurements)
             next == IF selected(db.rows, m[1], pid) # {} THEN db
                     ELSE [rows |-> Append(db.rows, Row(pid, m)),
                           no_inserted |-> db.no_inserted + 1]
         IN  insert_measurements(next, pid, Tail(measurements))

\* one call of insert_measurements, lines 102-117, on the database the
\* calls before it left: no_inserted starts at 0 (line 103), the rows are
\* committed when the with block ends, and the message reports
\* len(measurements) and no_inserted. repeated records that the call has
\* the arguments of the call before it
InsertsMeasurements ==
    /\ call.fn \in {"open_db", "insert_measurements"}
    /\ ret.done
    /\ \E pid \in PatientIds, measurements \in MeasurementLists :
          LET db == insert_measurements([rows |-> ret.value.rows, no_inserted |-> 0],
                                        pid, measurements)
          IN  /\ call' = Call("insert_measurements", <<pid, measurements>>)
              /\ ret' = Done([rows |-> db.rows,
                              no_inserted |-> db.no_inserted,
                              downloaded |-> Len(measurements),
                              repeated |-> call = Call("insert_measurements",
                                                       <<pid, measurements>>)])
    /\ UNCHANGED <<attempt_vars, cmd_vars, ntf_vars, chunk_vars>>

\* ---------------------------------------------------- reading the log ----

Issued(k) == \E i \in 1 .. Len(log) : log[i].op = "write" /\ log[i].cmd = k

Succeeded(k) == \E i \in 1 .. Len(log) : log[i].op = "done" /\ log[i].cmd = k

\* the command that retrieves the measurements
DataCmd == IF transport = "bt" THEN "GET_MEASUREMENTS" ELSE "CYCLES"

Resolved == update # "unset"

\* run_client or usb_communication has ended, normally or by an exception
SessionOver ==
    IF transport = "bt"
    THEN found_device # NoDevice /\ pc[found_device] \in {"disconnecting", "done"}
    ELSE upc \in {"exit", "exit_exc", "done"}

\* the place of a log entry in the session of section 4.3 (0: none)
Rank(e) ==
    CASE e.op = "start_notify" -> 1
      [] e.op = "write" /\ e.cmd = "SET_DATETIME" -> 2
      [] e.op = "write" /\ e.cmd = "GET_ID" -> 3
      [] e.op \in {"callback", "forced"} -> 4
      [] e.op = "write" /\ e.cmd = "SET_ID" -> 5
      [] e.op = "write" /\ e.cmd \in {"GET_MEASUREMENTS", "CYCLES"} -> 6
      [] e.op = "stop_notify" -> 7
      [] e.op = "write" /\ e.cmd = "DISCONNECT" -> 8
      [] OTHER -> 0

\* the steps of a session occur in the order of section 4.3, none without
\* the mandatory steps before it
SessionOrder ==
    /\ \A i, j \in 1 .. Len(log) :
         i < j /\ Rank(log[i]) > 0 /\ Rank(log[j]) > 0 => Rank(log[i]) <= Rank(log[j])
    /\ \A j \in 1 .. Len(log) :
         LET r == Rank(log[j])
             Has(q) == \E i \in 1 .. j - 1 : Rank(log[i]) = q
         IN /\ r >= 2 /\ transport = "bt" => Has(1)
            /\ r >= 3 => Has(2)
            /\ r >= 4 => Has(3)
            /\ r >= 5 => Has(4)
            /\ r = 8 => Has(7)
    /\ CountCmd(log, "write", "DISCONNECT") <= 1

\* a command is written only when every command written before it had a
\* response completed and validated while its send_command ran
ResponsesBeforeNext ==
    \A i, j \in 1 .. Len(log) :
        transport = "bt" /\ i < j /\ log[i].op = "write" /\ log[j].op = "write" /\ log[i].cmd # log[j].cmd
        => \E m \in i + 1 .. j - 1 : log[m].op = "response" /\ log[m].cmd = log[i].cmd

BtNext ==
    \/ Discover
    \/ GatherDone
    \/ \E c \in Peers :
        \/ TaskStart(c)
        \/ Connected(c)
        \/ ConnectFails(c)
        \/ NoMatch(c)
        \/ Match(c)
        \/ GetServicesFails(c)
        \/ Disconnected(c)
        \/ NotifyStarted(c)
        \/ NotifyFails(c)
        \/ WriteDone(c)
        \/ WriteFails(c)
        \/ Timeout(c)
        \/ WakeSetDateTime(c)
        \/ WakeGetId(c)
        \/ WakeSetId(c)
        \/ WakeGetMeasurements(c)
        \/ StopNotifyDone(c)
        \/ StopNotifyFails(c)
    \/ NotifyComplete
    \/ NotifyPartial
    \/ NotifyBad

\* the communication attempt has returned to its caller
AttemptOver ==
    IF transport = "bt" THEN runpc = "done" ELSE upc \in {"done", "not_found"}

\* a step of the session raised: the handler of isbpm printed the exception
\* of the winner, or the exception left the scope of the USB session
AttemptFailed == Count(log, "exception") + Count(log, "error") > 0

\* the call of the communication returns normally, and its caller goes on to
\* read get_patient_id() and get_measurements(): bluetooth_communication
\* always does (isbpm handles every exception), usb_communication does
\* unless an exception leaves it
ReturnsNormally ==
    IF transport = "bt" THEN runpc = "done"
    ELSE upc = "done" /\ Count(log, "error") = 0

\* ------------------------------------------------------ specifications ----

Next == BtNext \/ UsbNext

Init == AttemptInit /\ CmdIdle /\ NtfIdle /\ ChunksIdle /\ CodecIdle

Spec == Init /\ [][Next]_vars

\* a wireless discovery round alone
InitRound == Init /\ transport = "bt"

SpecRound == InitRound /\ [][BtNext]_vars

\* a USB communication attempt with its caller
InitUsbCaller == Init /\ transport = "usb"

SpecUsbCaller == InitUsbCaller /\ [][UsbCallerNext]_vars

\* the round with the awaited Bluetooth calls returning: a write_gatt_char
\* that was started ends, with success or with an exception (only the task
\* of the winner ever writes). No step of the
\* device (a notification) is required to happen
WritesEnd == WF_vars(\E c \in Peers : WriteDone(c) \/ WriteFails(c))

SpecTeardown == SpecRound /\ WritesEnd

InitUsbCmd == AttemptIdle /\ CmdInit /\ NtfIdle /\ ChunksIdle /\ CodecIdle

SpecUsbCmd == InitUsbCmd /\ [][UsbCmdNext]_vars

InitNotify == AttemptIdle /\ CmdIdle /\ NtfInit /\ ChunksIdle /\ CodecIdle

SpecNotify == InitNotify /\ [][NotifyNext]_vars

\* the callback and send_command with a device that answers with the two
\* responses ScenarioA and ScenarioAck, whole or in parts
ScenarioNext ==
    \/ \E v \in Parts(ScenarioA) \cup Parts(ScenarioAck) : Notification(v)
    \/ SendCommandResets
    \/ SendCommandReturns

SpecScenario == InitNotify /\ [][ScenarioNext]_vars

\* the write loops of both send_command; the loops are sequential code, a
\* turn that can be taken is taken
InitChunks == AttemptIdle /\ CmdIdle /\ NtfIdle /\ ChunksInit /\ CodecIdle

SpecChunks == InitChunks /\ [][ChunksNext]_vars /\ WF_vars(ChunksNext)

\* the parts of the model that a call of a codec function leaves idle
OthersIdle == AttemptIdle /\ CmdIdle /\ NtfIdle /\ ChunksIdle

InitCommands ==
    /\ OthersIdle
    /\ \/ call \in {Call("static", k) : k \in StaticCommands}
       \/ call \in {Call("set_id", id) : id \in IdInputs}
       \/ call \in {Call("set_date_and_time", dt) : dt \in DateTimes}
    /\ ret = Pending

SpecCommands == InitCommands /\ [][CommandsNext]_vars

InitHex ==
    /\ OthersIdle
    /\ \/ call \in {Call("encode", a) : a \in Payloads}
       \/ call \in {Call("decode_hexdigit", <<b>>) : b \in 0 .. 255}
       \/ call \in {Call("decode_hexnum", a) : a \in Payloads}
    /\ ret = Pending

SpecHex == InitHex /\ [][HexNext]_vars

InitUsbData ==
    /\ OthersIdle
    /\ \/ call \in {Call("record", r) : r \in Records}
       \/ call \in {Call("get_data", <<n, kinds>>) :
                        n \in -1 .. MaxCycles, kinds \in Kinds(MaxCycles)}
    /\ ret = Pending

SpecUsbData == InitUsbData /\ [][UsbDataNext]_vars

InitBtData ==
    /\ OthersIdle
    /\ call \in {Call("bt_get_data", BtResult(n, s)) :
                    n \in 0 .. MaxResult, s \in 1 .. Len(BtRecords)}
    /\ ret = Pending

SpecBtData == InitBtData /\ [][BtGetsData]_vars

InitIds ==
    /\ OthersIdle
    /\ \/ call \in {Call("bt_get_id", r) : r \in BtIdResults}
       \/ call \in {Call("usb_get_id", r) : r \in UsbIdResponses}
       \/ call \in {Call("set_id", id) : id \in IdInputs}
       \/ call \in {Call("usb_set_id", id) : id \in IdInputs}
    /\ ret = Pending

SpecIds == InitIds /\ [][IdsNext]_vars

InitDiscovery ==
    /\ OthersIdle
    /\ call \in {Call("run", <<scanned, paired>>) :
                    scanned \in {q \in UNION {[1 .. n -> Addresses] : n \in 0 .. MaxScanned} :
                                    \A i, j \in 1 .. Len(q) : i # j => q[i] # q[j]},
                    paired \in {[known |-> FALSE, addrs |-> {}]}
                                 \cup {[known |-> TRUE, addrs |-> a] :
                                          a \in SUBSET PairedAddresses}}
    /\ ret = Pending

SpecDiscovery == InitDiscovery /\ [][RunSelects]_vars

InitRead ==
    /\ OthersIdle
    /\ call \in {Call("read", q) : q \in UNION {[1 .. n -> HidReports] : n \in 0 .. MaxReports}}
    /\ ret = Pending

SpecRead == InitRead /\ [][UsbReads]_vars

InitUpdate ==
    /\ OthersIdle
    /\ \/ call \in {Call("bt_update", id) : id \in IdInputs}
       \/ call \in {Call("usb_update", id) : id \in IdInputs}
    /\ ret = Pending

SpecUpdate == InitUpdate /\ [][UpdateNext]_vars

\* get_data of both engines
InitData == InitUsbData \/ InitBtData

DataNext == UsbDataNext \/ BtGetsData

SpecData == InitData /\ [][DataNext]_vars

\* calls of insert_measurements, one after another, on a new database
InitStore ==
    /\ OthersIdle
    /\ call = Call("open_db", <<>>)
    /\ ret = Done([rows |-> open_db.rows, no_inserted |-> open_db.no_inserted,
                   downloaded |-> 0, repeated |-> FALSE])

SpecStore == InitStore /\ [][InsertsMeasurements]_vars

\* ================================================================ claims ====

\* C1: with any number of concurrent candidates of which one or more pass
\* the match test, under every interleaving, exactly one winner is decided:
\* found_device is assigned exactly once, "Found" is reported for exactly
\* one candidate, run_client is entered for exactly one candidate, and on
\* the connection of every other candidate there is no start_notify and no
\* characteristic write.
FirstMatchWins ==
    /\ Count(log, "assign") <= 1
    /\ Count(log, "found") <= 1
    /\ Count(log, "run_client") <= 1
    /\ matched # {} =>
        /\ found_device \in matched
        /\ CountOn(log, "assign", found_device) = 1
        /\ CountOn(log, "found", found_device) = 1
        /\ CountOn(log, "run_client", found_device) = 1
    /\ \A c \in Peers :
        c # found_device =>
            /\ CountOn(log, "start_notify", c) = 0
            /\ CountOn(log, "write", c) = 0
            /\ c \notin subs

\* two candidates passed the match test, the round is over and the winner's
\* session ran to its DISCONNECT
FirstMatchWinsWitness ==
    /\ Cardinality(matched) >= 2
    /\ runpc = "done"
    /\ Issued("DISCONNECT")

\* C2, as stated: against a transport that answers every write of the
\* command bytes with a malformed response, send_command writes the command
\* bytes exactly 15 times, reads exactly 15 times and then fails with an
\* error, with and without an argument.
RetriesExhaustedFails ==
    spc \in {"returned", "raised"} /\ only_malformed /\ error # "AssertionError" =>
        /\ retries = MAX_RETRY
        /\ header_writes = MAX_RETRY
        /\ reads = MAX_RETRY
        /\ spc = "raised"

\* the characters of the hexadecimal digits 0 .. 15 in upper case
UpperHexChars == <<48, 49, 50, 51, 52, 53, 54, 55, 56, 57, 65, 66, 67, 68, 69, 70>>

\* C3: whenever send_command returns a value for a command without an
\* argument, the value is response[1:-2] of the response read in the same
\* attempt, and that response starts with 6, is longer than 3 bytes and ends
\* with the two upper-case hexadecimal characters of the sum of its bytes
\* 1 .. len-3 modulo 256; no response failing one of these checks is
\* returned.
ChecksumValidated ==
    spc = "returned" /\ ~has_arg /\ ~value.none =>
        LET n == Len(response)
            sum == Sum([i \in 1 .. n - 3 |-> response[i + 1]]) % 256
        IN /\ n > 3
           /\ response[1] = 6
           /\ response[n - 1] = UpperHexChars[(sum \div 16) + 1]
           /\ response[n] = UpperHexChars[(sum % 16) + 1]
           /\ value.bytes = [i \in 1 .. n - 3 |-> response[i + 1]]
           /\ reads = retries

\* a command without an argument returned the payload 170 in its third
\* attempt
ChecksumValidatedWitness ==
    /\ spc = "returned" /\ ~has_arg /\ ~value.none
    /\ retries = 3
    /\ response = <<6, 170, 65, 65>>
    /\ value.bytes = <<170>>

SessionInOrder ==
    /\ SessionOrder
    /\ ResponsesBeforeNext

\* C7: every connection that is opened is closed on every exit path: a
\* candidate's connection by the time its task ends, the USB handle when
\* the scope is left; close() without a handle does nothing.
ConnectionsClosed ==
    /\ \A c \in Peers : pc[c] = "done" => conn[c] # "open"
    /\ runpc = "done" => \A c \in Peers : conn[c] # "open"
    /\ upc = "done" => device = "none" /\ hid_closes = 1
    /\ upc = "not_found" => device = "none" /\ hid_closes = 0
    /\ hid_closes <= 1

\* the round is over, the winner's session ended by an exception and
\* another candidate's connection was opened and closed
ConnectionsClosedWitness ==
    /\ runpc = "done"
    /\ found_device # NoDevice
    /\ Count(log, "exception") > 0
    /\ \E c \in Peers : c # found_device /\ conn[c] = "closed"

\* C8, as stated: a send_command during which no completing notification
\* arrives ends with the timeout error (it never returns a result); after
\* the timeout the command is not sent again, no further command is written
\* and the connection is closed when the task ends.
TimeoutWithoutResponse ==
    /\ Count(log, "stale") = 0
    /\ \A i \in 1 .. Len(log) :
        log[i].op = "timeout" =>
            /\ \A j \in i + 1 .. Len(log) : log[j].op # "write"
            /\ CountCmd(log, "write", log[i].cmd) = NumWrites(log[i].cmd)
            /\ pc[log[i].on] = "done" => conn[log[i].on] = "closed"

\* C9, as stated: after a command timed out the remaining steps of the
\* session, the teardown among them, are still carried out.
TimeoutFailsCommandOnly ==
    \A i \in 1 .. Len(log) :
        log[i].op = "timeout" /\ pc[log[i].on] = "done" =>
            /\ \E j \in i + 1 .. Len(log) : log[j].op = "stop_notify"
            /\ \E j \in i + 1 .. Len(log) :
                   log[j].op = "write" /\ log[j].cmd = "DISCONNECT"

\* C9, amended: the expiry of the wait fails the command and with it the
\* session: after a timeout no step of the session is carried out (no
\* write, no stop_notify, no DISCONNECT); the exception is reported and the
\* connection closed.
TimeoutEndsSession ==
    \A i \in 1 .. Len(log) :
        log[i].op = "timeout" =>
            /\ \A j \in i + 1 .. Len(log) : log[j].op = "exception"
            /\ pc[log[i].on] = "done" =>
                   /\ conn[log[i].on] = "closed"
                   /\ CountOn(log, "exception", log[i].on) = 1

\* GET_ID timed out, with the resolution and the teardown still to come,
\* and the task has ended
TimeoutEndsSessionWitness ==
    /\ \E i \in 1 .. Len(log) : log[i].op = "timeout" /\ log[i].cmd = "GET_ID"
    /\ found_device # NoDevice /\ pc[found_device] = "done"

\* C10, as stated: exactly one full command session executes per
\* discovery round.
OneFullSessionPerRound ==
    transport = "bt" /\ runpc = "done" => Count(log, "session_end") = 1

\* C10, amended: at most one command session executes per discovery round:
\* one is started iff a candidate passes the match test, and it runs all of
\* steps 1-7 unless one of its steps fails.
OneSessionPerRound ==
    transport = "bt" =>
        /\ Count(log, "run_client") <= 1
        /\ Count(log, "session_end") <= Count(log, "run_client")
        /\ runpc = "done" =>
            /\ Count(log, "run_client") = 1 <=> matched # {}
            /\ Count(log, "run_client") = 1 /\ Count(log, "exception") = 0
                   => Count(log, "session_end") = 1
        /\ Count(log, "session_end") = 1 =>
            /\ Count(log, "start_notify") = 1
            /\ Succeeded("SET_DATETIME")
            /\ Succeeded("GET_ID")
            /\ Resolved
            /\ update = "True" => Succeeded("SET_ID")
            /\ update = "True" \/ patient_id # "" => Succeeded("GET_MEASUREMENTS")
            /\ Count(log, "stop_notify") = 1
            /\ Issued("DISCONNECT")

\* a round with two devices in which the session ran to its end
OneSessionPerRoundWitness ==
    /\ runpc = "done"
    /\ Cardinality(devices) >= 2
    /\ Count(log, "session_end") = 1
    /\ Succeeded("GET_MEASUREMENTS")

\* C11: Discovery.run returns only after the probe task of every candidate
\* has finished, the winner's whole session included, whatever the probes
\* raise; "not found" is reported iff no candidate set found_device, and
\* only when all probes have completed (it is the last thing reported).
RunWaitsForProbes ==
    /\ runpc = "done" =>
        /\ \A p \in devices : pc[p] = "done" /\ conn[p] # "open"
        /\ found_device # NoDevice => SessionOver
        /\ found_device = NoDevice <=>
               Count(log, "not_found") + Count(log, "no_devices") = 1
    /\ Count(log, "not_found") + Count(log, "no_devices") <= 1
    /\ \A i \in 1 .. Len(log) :
        log[i].op \in {"not_found", "no_devices"} =>
            /\ i = Len(log)
            /\ runpc = "done"
            /\ found_device = NoDevice

\* two candidates were probed, one of which could not be connected, none
\* matched, and "not found" was reported
RunWaitsForProbesWitness ==
    /\ runpc = "done"
    /\ Cardinality(devices) = 2
    /\ Count(log, "not_found") = 1
    /\ \E c, d \in devices : conn[c] = "closed" /\ conn[d] = "none"

\* C12: what a candidate other than the winner raises (opening the
\* connection, enumerating the capabilities, disconnecting) is swallowed: no
\* message is emitted for it or for a candidate that does not match, and the
\* step in which it is raised or handled changes neither another candidate's
\* probe nor the winner's session.
OthersFailSilently ==
    /\ [](\A i \in 1 .. Len(log) :
            log[i].on # NoDevice => log[i].on = found_device)
    /\ [][\A c \in Peers :
            /\ c # found_device /\ c # found_device'
            /\ pc[c] # "none" /\ pc[c] # pc'[c]
            => /\ log' = log
               /\ \A d \in Peers \ {c} :
                      pc'[d] = pc[d] /\ exc'[d] = exc[d] /\ conn'[d] = conn[d]
               /\ UNCHANGED <<found_device, client, result_event, received_value,
                              result, session_vars>>]_vars

\* the exception of a candidate that is not the winner is propagating while
\* the winner waits for the response to a command
OthersFailSilentlyWitness ==
    /\ found_device # NoDevice
    /\ pc[found_device] = "wait"
    /\ \E c \in devices : c # found_device /\ exc[c] /\ pc[c] = "disconnecting"

\* C13, as stated: when the session of the winner or the USB session fails
\* at a step, the failure is the outcome of the attempt: an error is
\* reported, and the caller finds neither a patient identifier (other than
\* None or the empty one) nor measurements as the result of the attempt.
FailureIsTerminal ==
    AttemptOver /\ AttemptFailed =>
        (ReturnsNormally =>
            patient_id \in {NoId, ""} /\ blood_pressure_measurements = 0)

\* C14, as stated: a send returns a validated response or fails; for a USB
\* command with an argument, send_command returns only when the device
\* acknowledged the command bytes, and what it returns is the
\* acknowledgement that was read after the argument was written.
ArgCommandAcknowledged ==
    spc = "returned" /\ has_arg =>
        /\ ~value.none
        /\ response = <<ACK>>
        /\ value.bytes = <<ACK>>


TeardownOrder ==
    /\ [](\A i \in 1 .. Len(log) :
            log[i].op = "write" /\ log[i].cmd = "DISCONNECT" =>
                /\ log[i].on = found_device
                /\ found_device \notin subs
                /\ \E j \in 1 .. i - 1 : log[j].op = "stop_notify"
                /\ \A j \in i + 1 .. Len(log) :
                       log[j].op \in {"session_end", "comm_done", "exception"})
    /\ [](\A c \in Peers : cmd[c] = "DISCONNECT" => pc[c] # "wait")
    /\ (\E c \in Peers : pc[c] = "write" /\ cmd[c] = "DISCONNECT")
           ~> SessionOver

\* a complete session ended by the DISCONNECT write while the result event
\* is clear and no notification is pending
TeardownOrderWitness ==
    /\ found_device # NoDevice /\ pc[found_device] = "disconnecting"
    /\ ~exc[found_device]
    /\ cmd[found_device] = "DISCONNECT"
    /\ ~result_event /\ received_value = "empty"
    /\ Count(log, "session_end") = 1
    /\ Succeeded("GET_MEASUREMENTS")

\* C17, as stated: in Microlife_USB.send_command a response that starts with
\* ACK and is longer than 3 bytes but whose checksum does not match is
\* discarded and the cycle is retried: a call never ends on such a response
\* before the 15th attempt, and never with an exception because of it.
ChecksumMismatchRetried ==
    (/\ spc \in {"returned", "raised"} /\ ~has_arg /\ Len(response) > 3
     /\ IF Malformed(has_arg, response) THEN FALSE
                                        ELSE ~ChecksumAccepted(response))
        => retries = MAX_RETRY /\ error = "none"

\* C18, as stated: in the wireless engine a response that violates the tag,
\* the declared length or the checksum is a hard failure of the pending
\* command: the command that waits while the violation happens, with no
\* response completed since it was sent, ends by
\* failing because of it (not by the expiry of the wait), the rejected
\* bytes are never delivered as its result, and it is not sent again.
ViolationFailsCommand ==
    [][\A c \in Peers :
          (pc[c] = "wait" /\ pc'[c] # "wait"
               /\ received_value = "garbage" /\ aliased) =>
              /\ exc'[c]
              /\ log'[Len(log')].op \notin {"timeout", "done"}
              /\ ~(pc'[c] = "write" /\ cmd'[c] = cmd[c])]_vars

\* C19, as stated: the response bytes 'M', ':', 0, 5, 0x81, 0x86 are
\* accepted by the reassembly and decode to the payload [0x81], the
\* acknowledgement that SET_ID and SET_DATETIME require.
ScenarioAAccepted ==
    nv_last.acc = ScenarioA =>
        /\ nv_last.outcome = "complete"
        /\ nv_event
        /\ Acknowledges(nv_result)

\* C19, amended: the response bytes 'M', ':', 0, 2, 0x81, 0x0A (length field
\* 2, expected total 6, checksum 10) are accepted by the reassembly, however
\* they are split into notifications, and decode to the payload [0x81], the
\* acknowledgement that SET_ID and SET_DATETIME require; the bytes
\* 'M', ':', 0, 5, 0x81, 0x86 are not accepted: their length field declares
\* a total of 9 bytes, so the reassembly keeps them as the incomplete start
\* of a response, sets no result (result stays what it was, or stays the
\* buffer itself) and does not signal.
ScenarioAckAccepted ==
    /\ nv_last.acc = ScenarioAck =>
        /\ ExpectedLength(nv_last.acc) = 6
        /\ nv_last.outcome = "complete"
        /\ nv_event
        /\ nv_received = <<>>
        /\ nv_result = <<129>> /\ Acknowledges(nv_result)
    /\ nv_last.acc = ScenarioA =>
        /\ ExpectedLength(nv_last.acc) = 9
        /\ nv_last.outcome = "pending"
        /\ nv_received = ScenarioA
        /\ nv_event = nv_last.event
        /\ nv_result = IF nv_last.aliased THEN ScenarioA ELSE nv_last.result
        /\ ~Acknowledges(ScenarioA)

\* the acknowledgement was delivered in two notifications while
\* send_command waited, and is the result
ScenarioAckAcceptedWitness ==
    /\ nv_last.acc = ScenarioAck
    /\ nv_last.aliased /\ ~nv_last.event
    /\ nv_last.result # <<>>
    /\ nv_event /\ nv_result = <<129>>

\* C20: for every command p the writes of the wireless send_command, joined
\* in order, are p, every write has at most 20 bytes, every write but the
\* last exactly 20, and none is empty; for every USB argument stream the
\* writes joined in order are the stream, every write has at most 7 bytes
\* and every write but the last exactly 7; both loops terminate.
ChunkingRoundTrip ==
    /\ [](LET size == IF engine = "bt" THEN MAX_WRITE_LEN ELSE MAX_CMD_WRITE
          IN /\ Concat(written) \o rest.bytes = stream
             /\ \A i \in 1 .. Len(written) :
                    /\ Len(written[i]) >= 1
                    /\ Len(written[i]) <= size
                    /\ i < Len(written) => Len(written[i]) = size
             /\ Truthy(rest) => \A i \in 1 .. Len(written) : Len(written[i]) = size
             /\ wpc = "done" =>
                    /\ Concat(written) = stream
                    /\ Len(written) = (Len(stream) + size - 1) \div size
                    /\ engine = "usb" => written = Pieces(stream))
    /\ <>(wpc = "done")

\* a command of 45 bytes was written in three writes, the last of 5 bytes
ChunkingRoundTripWitness ==
    /\ engine = "bt" /\ wpc = "done"
    /\ Len(stream) = 45
    /\ Len(written) = 3 /\ Len(written[3]) = 5

\* C21: every command the wireless engine hands to its writes ends with the
\* byte (sum of all bytes before it) mod 256: the three static commands,
\* SET_ID for identifiers of every length (0 .. 20 and longer) and
\* SET_DATETIME; SET_ID always has 28 bytes, its length field is 24, its
\* total length minus 4, and the identifier stays inside positions 6 .. 25.
CommandChecksums ==
    ret.done =>
        LET c == ret.value
        IN /\ Len(c) >= 6
           /\ c[Len(c)] = Sum(SubSeq(c, 1, Len(c) - 1)) % 256
           /\ c[1] = 77 /\ c[2] = 255
           /\ c[3] * 256 + c[4] = Len(c) - 4
           /\ call.fn = "set_id" =>
                  /\ Len(c) = 28 /\ c[4] = 24
                  /\ SubSeq(c, 1, 6) = <<77, 255, 0, 24, 6, 253>>
                  /\ c[27] = 216
                  /\ \A i \in 1 .. 20 :
                         c[6 + i] = IF i <= Len(call.arg) THEN call.arg[i] ELSE 0
           /\ call.fn = "set_date_and_time" => Len(c) = 12 /\ c[4] = 8

\* SET_ID was built for an identifier of 22 characters
CommandChecksumsWitness ==
    /\ ret.done /\ call.fn = "set_id"
    /\ Len(call.arg) = 22 /\ call.arg[1] = 65
    /\ Len(ret.value) = 28

\* C22, as stated: the stream sent for a USB argument payload is the two
\* hexadecimal characters of each payload byte in order, followed by the two
\* hexadecimal characters of (sum of the payload bytes) mod 256.
ArgStreamPayloadSum ==
    call.fn = "encode" /\ ret.done =>
        LET n == Len(call.arg)
            digits == {UpperDigit((Sum(call.arg) % 256) \div 16),
                       LowerDigit((Sum(call.arg) % 256) \div 16)}
            units == {UpperDigit(Sum(call.arg) % 16), LowerDigit(Sum(call.arg) % 16)}
        IN /\ Len(ret.value) = 2 * n + 2
           /\ ret.value[2 * n + 1] \in digits
           /\ ret.value[2 * n + 2] \in units

\* C22, amended: the stream sent for a USB argument payload is the two
\* lower-case hexadecimal characters of each payload byte in order, followed
\* by the two lower-case hexadecimal characters of (sum of the character
\* codes of those hexadecimal characters) mod 256.
ArgStreamCharSum ==
    call.fn = "encode" /\ ret.done =>
        LET n == Len(call.arg)
            cksum == Sum(SubSeq(ret.value, 1, 2 * n)) % 256
        IN /\ Len(ret.value) = 2 * n + 2
           /\ \A i \in 1 .. n :
                  /\ ret.value[2 * i - 1] = LowerDigit(call.arg[i] \div 16)
                  /\ ret.value[2 * i] = LowerDigit(call.arg[i] % 16)
           /\ ret.value[2 * n + 1] = LowerDigit(cksum \div 16)
           /\ ret.value[2 * n + 2] = LowerDigit(cksum % 16)

\* the payload b'\xab' was encoded as "ab" and the checksum of 'a' and 'b',
\* 97 + 98 = 195 = 0xc3, as "c3"
ArgStreamCharSumWitness ==
    /\ call = Call("encode", <<171>>)
    /\ ret = Done(<<97, 98, 99, 51>>)

\* C23: for the byte sequences of up to 32 bytes, the USB argument encoding
\* (two hexadecimal characters per byte) decoded pair by pair with
\* decode_hexnum gives the original bytes; decode_hexdigit accepts exactly
\* the characters 0-9, A-F and a-f, with their values, and fails on every
\* other byte.
HexRoundTrip ==
    /\ call.fn = "decode_hexnum" /\ ret.done =>
           ret.raised = "none" /\ ret.value = call.arg
    /\ call.fn = "decode_hexdigit" /\ ret.done =>
           LET b == call.arg[1]
           IN /\ ret.raised = "none" <=> b \in (48 .. 57) \cup (65 .. 70) \cup (97 .. 102)
              /\ b \in 48 .. 57 => ret.value = <<b - 48>>
              /\ b \in 65 .. 70 => ret.value = <<b - 55>>
              /\ b \in 97 .. 102 => ret.value = <<b - 87>>
              /\ ret.raised # "none" => ret.raised = "Exception"

\* a payload of 32 bytes came back from its 64 characters
HexRoundTripWitness ==
    /\ call.fn = "decode_hexnum" /\ ret.done
    /\ Len(call.arg) = 32 /\ Len(Hex(call.arg)) = 64
    /\ \E i \in 1 .. 32 : call.arg[i] >= 160
    /\ ret.value = call.arg

\* C24, as stated: a USB record whose first 10 characters are a valid
\* YYMMDDHHMM date and whose bytes 16-23 are the hexadecimal digits of
\* sys | (dia << 10) | (pulse << 20), each of the three in 0 .. 1023, decodes
\* to ("20YY-MM-DD HH:MM", sys, dia, pulse); the date 2301011230 with
\* 120, 80, 65 gives ("2023-01-01 12:30", 120, 80, 65).
RecordDecoded ==
    call.fn = "record" /\ ret.done =>
        LET date == Slice(call.arg, 0, 10)
            word == decode_hexnum(Slice(call.arg, 16, 24))
            n(i) == (date[i] - 48) * 10 + date[i + 1] - 48
            valid == /\ \A i \in 1 .. 10 : date[i] \in 48 .. 57
                     /\ n(3) \in 1 .. 12 /\ n(7) <= 23 /\ n(9) <= 59
                     /\ n(5) >= 1
                     /\ n(5) <= (IF n(3) = 2 THEN (IF n(1) % 4 = 0 THEN 29 ELSE 28)
                                 ELSE IF n(3) \in {4, 6, 9, 11} THEN 30 ELSE 31)
        IN  valid =>
                /\ ret.raised = "none" /\ Len(ret.value) = 1
                /\ ret.value[1][1] =
                       <<50, 48>> \o SubSeq(date, 1, 2) \o <<45>> \o SubSeq(date, 3, 4)
                           \o <<45>> \o SubSeq(date, 5, 6) \o <<32>>
                           \o SubSeq(date, 7, 8) \o <<58>> \o SubSeq(date, 9, 10)
                /\ Packed(ret.value[1][2], ret.value[1][3], ret.value[1][4]) = word
                /\ \A j \in 2 .. 4 : ret.value[1][j] \in 0 .. 1023

\* the records of a response that get_data examines: the first n of those
\* present, n the declared number of cycles, each as the loop body takes it
Examined(n, kinds) ==
    [i \in 1 .. (IF n < Len(kinds) THEN n ELSE Len(kinds)) |->
        usb_record(Slots[kinds[i]])]

\* C25, as stated: for every response to CYCLES get_data examines the
\* records at offsets 32, 64, ... for the declared number of cycles, in
\* order; a record whose first 10 characters are no valid date is skipped
\* without an error and without ending the decoding, and the output is
\* exactly the sequence of the remaining records in their order, of a length
\* of at most the declared number.
CyclesDecoded ==
    call.fn = "get_data" /\ ret.done =>
        LET kept == SelectSeq(Examined(call.arg[1], call.arg[2]),
                              LAMBDA r : r.what # "skip")
        IN  /\ ret.raised = "none"
            /\ Len(ret.value) = Len(kept)
            /\ Len(ret.value) <= call.arg[1]
            /\ \A i \in 1 .. Len(kept) : kept[i].what = "append" => ret.value[i] = kept[i].m

\* C25, amended: the same for every response whose cycle count is a
\* hexadecimal number and whose examined records with a valid date carry a
\* hexadecimal word; with a count that is no hexadecimal number, or with an
\* examined record that has a valid date and a word that is no hexadecimal
\* number, get_data raises Exception and returns no sequence; the
\* measurements of the records before that one have been appended.
CyclesDecodedOrRaised ==
    call.fn = "get_data" /\ ret.done =>
        LET examined == Examined(call.arg[1], call.arg[2])
            kept == SelectSeq(examined, LAMBDA r : r.what # "skip")
            first == CHOOSE i \in 1 .. Len(examined) + 1 :
                         /\ i <= Len(examined) => examined[i].what = "raise"
                         /\ \A j \in 1 .. i - 1 : examined[j].what # "raise"
            before == SelectSeq(SubSeq(examined, 1, first - 1),
                                LAMBDA r : r.what = "append")
        IN  IF call.arg[1] = -1
            THEN ret = Raised("Exception")
            ELSE IF first <= Len(examined)
            THEN /\ ret.raised = "Exception"
                 /\ ret.value = [i \in 1 .. Len(before) |-> before[i].m]
            ELSE /\ ret.raised = "none"
                 /\ ret.value = [i \in 1 .. Len(kept) |-> kept[i].m]
                 /\ Len(ret.value) <= call.arg[1]

\* three declared cycles, the second with a date that is no date: the first
\* and the third are the output, in this order
CyclesDecodedOrRaisedWitness ==
    /\ call = Call("get_data", <<3, <<1, 4, 2>>>>)
    /\ ret.done /\ ret.raised = "none"
    /\ Len(ret.value) = 2
    /\ ret.value[1] = <<<<50, 48, 50, 51, 45, 48, 49, 45, 48, 49, 32, 49, 50, 58, 51, 48>>,
                        120, 80, 65>>
    /\ ret.value[2] = <<<<50, 48, 50, 52, 45, 49, 50, 45, 51, 49, 32, 50, 51, 58, 53, 57>>,
                        135, 85, 70>>

\* the record at position k of a result: the 8 bytes at 38 + 10k, as the
\* layout of the device gives them
Layout(res, k) ==
    LET at(j) == res[38 + 10 * k + j + 1]
    IN  <<FourDigits(at(3) + 2000) \o <<45>> \o AtLeastTwoDigits(at(4)) \o <<45>>
            \o AtLeastTwoDigits(at(5)) \o <<32>> \o AtLeastTwoDigits(at(6))
            \o <<58>> \o AtLeastTwoDigits(at(7)),
          at(0), at(1), at(2)>>

\* C26, as stated: for every result of GET_MEASUREMENTS of length L the
\* decoder produces one record for every k >= 0 with 38 + 10k < L, in
\* increasing k, and record k is the date built from year = byte 38+10k+3 +
\* 2000 and month, day, hour, minute at +4 .. +7, with systolic = byte +0,
\* diastolic = byte +1, pulse = byte +2; a result of length at most 38
\* produces no record.
WirelessRecordsDecoded ==
    call.fn = "bt_get_data" /\ ret.done =>
        LET L == Len(call.arg)
            begun == {k \in 0 .. L : 38 + 10 * k < L}
        IN  /\ ret.raised = "none"
            /\ Len(ret.value) = Cardinality(begun)
            /\ \A k \in begun : 38 + 10 * k + 8 <= L =>
                   ret.value[k + 1] = Layout(call.arg, k)

\* C26, amended: the same for every result in which every record that
\* begins, 38 + 10k < L, has its 8 bytes, 38 + 10k + 8 <= L; in a result
\* whose last record has fewer than 8 bytes the decoder appends the records
\* before it and raises ValueError.
WirelessRecordsDecodedOrRaised ==
    call.fn = "bt_get_data" /\ ret.done =>
        LET L == Len(call.arg)
            begun == {k \in 0 .. L : 38 + 10 * k < L}
            whole == {k \in begun : 38 + 10 * k + 8 <= L}
        IN  /\ ret.raised = IF whole = begun THEN "none" ELSE "ValueError"
            /\ Len(ret.value) = Cardinality(whole)
            /\ \A k \in whole : ret.value[k + 1] = Layout(call.arg, k)
            /\ L <= 38 => ret = Done(<<>>)

\* a result of 58 bytes: two records, in their order
WirelessRecordsDecodedOrRaisedWitness ==
    /\ call.fn = "bt_get_data" /\ Len(call.arg) = 58
    /\ ret.done /\ ret.raised = "none"
    /\ ret.value = <<<<<<50, 48, 50, 51, 45, 48, 49, 45, 48, 49, 32, 49, 50, 58, 51, 48>>,
                       120, 80, 65>>,
                     <<<<50, 48, 50, 52, 45, 49, 50, 45, 51, 49, 32, 50, 51, 58, 53, 57>>,
                       135, 85, 70>>>>

\* an identifier as the device bounds it: at most n characters, printable
\* ASCII only, no white space at either end
Bounded(id, n) ==
    /\ Len(id) <= n
    /\ \A i \in 1 .. Len(id) : id[i] \in 32 .. 126
    /\ id # <<>> => id[1] # 32 /\ id[Len(id)] # 32

\* a command or argument that carries the first n characters of id, and
\* nothing else of it, in the field that begins after position at
Carries(bytes, blank, id, at, n) ==
    /\ Len(bytes) = Len(blank)
    /\ \A i \in 1 .. Len(blank) :
           bytes[i] = IF i > at /\ i <= at + n /\ i <= at + Len(id) THEN id[i - at]
                      ELSE blank[i]

\* C27, as stated: an identifier decoded from a GET_ID response has at most
\* 20 characters (wireless) or 11 characters (USB), consists only of
\* printable ASCII characters and has no leading or trailing white space;
\* SET_ID transmits at most the first 20 (wireless) or 11 (USB) characters
\* of the identifier and writes no character of it outside the identifier
\* field of the command.
IdentifiersBounded ==
    ret.done /\ ret.raised = "none" =>
        /\ call.fn = "bt_get_id" => Bounded(ret.value, 20)
        /\ call.fn = "usb_get_id" => Bounded(ret.value, 11)
        /\ call.fn = "set_id" =>
               Carries(SubSeq(ret.value, 1, Len(ret.value) - 1),
                       <<77, 255, 0, 24, 6, 253>> \o [i \in 1 .. 20 |-> 0] \o <<216>>,
                       call.arg, 6, 20)
        /\ call.fn = "usb_set_id" =>
               Carries(ret.value, <<0, 1, 0, 1>> \o [i \in 1 .. 28 |-> 0],
                       call.arg, 4, 11)

\* C28: the set of candidates is the set of the scanned devices whose
\* lower-cased address is in the set of trusted devices when that set is
\* known (an empty known set gives no candidate), and the whole set of
\* scanned devices when it is not known; with no candidate no probe is
\* started, no connection is opened and a 'not found' message is reported.
CandidatesAreTrusted ==
    call.fn = "run" /\ ret.done =>
        LET scanned == {call.arg[1][i] : i \in 1 .. Len(call.arg[1])}
            paired == call.arg[2]
            candidates == {ret.value.devices[i] : i \in 1 .. Len(ret.value.devices)}
        IN  /\ ret.raised = "none"
            /\ paired.known =>
                   candidates = {d \in scanned : Lower(d) \in paired.addrs}
            /\ paired.known /\ paired.addrs = {} => candidates = {}
            /\ ~paired.known => candidates = scanned
            /\ candidates = {} =>
                   ret.value.tasks = <<>> /\ ret.value.message = "not found"
            /\ candidates # {} =>
                   ret.value.tasks = ret.value.devices
                       /\ ret.value.message = "contacting"

\* "A1" and "b2" are scanned and "a1" is trusted: "A1" is the candidate
CandidatesAreTrustedWitness ==
    /\ call = Call("run", <<<<<<65, 49>>, <<98, 50>>>>,
                            [known |-> TRUE, addrs |-> {<<97, 49>>}]>>)
    /\ ret.done
    /\ ret.value.devices = <<<<65, 49>>>>
    /\ ret.value.message = "contacting"

\* C29: a USB write whose returned byte count differs from the expected
\* report size is fatal and not retried: the assertion failure leaves
\* send_command at once, before any read (of the attempts made so far every
\* one but the failing one has read once when the command bytes were not
\* taken, and the failing one has read the acknowledgement only when a piece
\* of the argument was not taken), without a further attempt, and no
\* further write is issued.
WriteMismatchIsFatal ==
    /\ [](error = "AssertionError" =>
              /\ spc = "raised" /\ value = None
              /\ header_writes = retries
              /\ reads = IF arg_writes = <<>> THEN retries - 1 ELSE retries)
    /\ [][error = "AssertionError" =>
              UNCHANGED <<spc, retries, header_writes, arg_writes, reads, value>>]_vars

\* the second attempt fails on the write of its command bytes, after one
\* malformed response
WriteMismatchIsFatalWitness ==
    /\ error = "AssertionError" /\ spc = "raised"
    /\ retries = 2 /\ header_writes = 2 /\ reads = 1 /\ arg_writes = <<>>

\* C30: the winner is the first candidate, in the order in which the tasks
\* are resumed, to return from the enumeration of the capabilities with a
\* match; and once found_device is set, no candidate initiates a connection
\* and no candidate that has just connected starts an enumeration: a
\* candidate that finds found_device set returns with no further device
\* operation but the closing of its connection.
WinnerIsFirstMatch ==
    /\ [](found_device # NoDevice => found_device \in matched)
    /\ [][/\ (matched = {} /\ matched' # {}) =>
                 (found_device = NoDevice /\ matched' = {found_device'})
          /\ (matched # {}) =>
                 (found_device # NoDevice /\ found_device' = found_device)
          /\ (found_device # NoDevice) =>
                 \A c \in Peers :
                     /\ (pc'[c] = "connecting") => (pc[c] = "connecting")
                     /\ (pc'[c] = "get_services") => (pc[c] = "get_services")
                     /\ (pc[c] \in {"created", "connecting"}) =>
                            /\ pc'[c] \in {pc[c], "done", "disconnecting"}
                            /\ (pc'[c] # pc[c]) => (log' = log)
                            /\ conn'[c] \in {conn[c], "open"}]_vars

\* the winner is decided and another candidate, which has no match, has
\* connected and closes its connection
WinnerIsFirstMatchWitness ==
    /\ found_device # NoDevice
    /\ \E c \in devices :
           /\ c # found_device /\ c \notin matched
           /\ pc[c] = "disconnecting" /\ conn[c] = "open"
           /\ pc[found_device] = "start_notify"

\* C31: read returns the concatenation, in the order of arrival, of the
\* payload bytes buf[1 .. (buf[0] & 15)] (those of them the report has) of
\* every report that is not empty and came before the first empty read; it
\* stops at the first empty read, returns an empty sequence when the first
\* read is empty, and never puts the length byte of a report into the
\* response.
ReadAssembles ==
    call.fn = "read" /\ ret.done =>
        LET reports == call.arg
            first == CHOOSE i \in 1 .. Len(reports) + 1 :
                         /\ i <= Len(reports) => reports[i] = <<>>
                         /\ \A j \in 1 .. i - 1 : reports[j] # <<>>
            size(buf) == IF buf[1] % 16 < Len(buf) - 1 THEN buf[1] % 16
                         ELSE Len(buf) - 1
            before(i) == LET RECURSIVE total(_)
                             total(j) == IF j = 0 THEN 0
                                         ELSE total(j - 1) + size(reports[j])
                         IN  total(i - 1)
        IN  /\ ret.raised = "none"
            /\ Len(ret.value) = before(first)
            /\ \A i \in 1 .. first - 1 : \A j \in 1 .. size(reports[i]) :
                   ret.value[before(i) + j] = reports[i][j + 1]
            /\ first = 1 => ret.value = <<>>

\* three reports arrive: 3 bytes, 3 bytes of a report with bits set above
\* its length, and none of a report of length 0
ReadAssemblesWitness ==
    /\ call = Call("read", <<<<3, 65, 66, 67, 1, 2, 3, 4>>,
                             <<147, 97, 98, 99, 5, 6, 7, 8>>,
                             <<0, 9, 9, 9, 9, 9, 9, 9>>>>)
    /\ ret = Done(<<65, 66, 67, 97, 98, 99>>)

\* C32, as stated: every value that the wireless send_command returns is the
\* payload of a response that was completed and validated after the command
\* was written (after the buffers were reset), for any timing of the
\* notifications: an event left set by an earlier response never makes a
\* later send_command return an empty, partial or earlier payload.
ReturnsFreshPayload ==
    [][(nv_event /\ ~nv_event') => ~nv_aliased]_vars

\* C33: within one round found_device changes at most once, from unset to
\* the address of the winner, and is never reset or assigned again, also
\* when the session of the winner fails; so after a failure of the winner
\* no other matching candidate starts a command session in that round and
\* no 'not found' report is emitted.
WinnerFlagIsFinal ==
    /\ [][found_device # NoDevice => found_device' = found_device]_vars
    /\ []((\E i \in 1 .. Len(log) : log[i].op = "exception") =>
              /\ found_device # NoDevice
              /\ Count(log, "run_client") = CountOn(log, "run_client", found_device)
              /\ Count(log, "run_client") <= 1
              /\ Count(log, "not_found") = 0
              /\ \A c \in Peers \ {found_device} : pc[c] # "start_notify")

\* the session of the winner failed, another candidate matched as well, and
\* the round is over without a 'not found' report
WinnerFlagIsFinalWitness ==
    /\ runpc = "done"
    /\ Cardinality(matched) >= 2
    /\ \E i \in 1 .. Len(log) : log[i].op = "exception"
    /\ Count(log, "not_found") = 0
    /\ ~Issued("DISCONNECT")

\* C34, as stated: the retrieval of the measurements is all or nothing on
\* both transports: when get_data fails while decoding a response (wireless:
\* a fragment of fewer than 8 bytes after offset 38; USB: a record with a
\* valid date whose word has a character that is no hexadecimal digit), the
\* list of measurements is as it was before get_data, with no record of the
\* partly decoded response in it.
RetrievalAllOrNothing ==
    call.fn \in {"get_data", "bt_get_data"} /\ ret.done /\ ret.raised # "none" =>
        ret.value = <<>>

\* C35, as stated: after a session that updated the identifier, the patient
\* identifier that the session exposes to the caller equals the identifier
\* written to the device by SET_ID (the characters in the identifier field
\* of the command), for every identifier supplied, those longer than the
\* maximum of the device (20 characters wireless, 11 USB) included.
ExposedIsWritten ==
    call.fn \in {"bt_update", "usb_update"} /\ ret.done =>
        LET field == IF call.fn = "bt_update"
                     THEN SubSeq(ret.value.command, 7, 26)
                     ELSE SubSeq(ret.value.command, 5, 15)
        IN  ret.value.patient_id = SelectSeq(field, LAMBDA b : b # 0)

\* C36, as stated: on the USB transport get_patient_id(), called after
\* usb_communication, returns the identifier resolved during the session
\* and performs no device I/O: the commands written to the device in a
\* whole USB communication attempt are only SET_DATETIME, one GET_ID,
\* optionally SET_ID and optionally CYCLES.
AccessorDoesNoIo ==
    transport = "usb" =>
        /\ \A i \in 1 .. Len(log) :
               log[i].op = "write" =>
                   log[i].cmd \in {"SET_DATETIME", "GET_ID", "SET_ID", "CYCLES"}
        /\ \A k \in {"SET_DATETIME", "GET_ID", "SET_ID", "CYCLES"} :
               CountCmd(log, "write", k) <= 1

\* C37, as stated: in a wireless session SET_DATETIME and SET_ID succeed
\* only if the validated payload of the response is exactly the one byte
\* 129; for any other payload the session aborts at that command and writes
\* no later command (no GET_ID, SET_ID, GET_MEASUREMENTS or DISCONNECT).
AckRequired ==
    /\ [][\A c \in Peers :
            (/\ pc[c] = "wait" /\ cmd[c] \in {"SET_DATETIME", "SET_ID"}
             /\ result_event /\ ~result_event') =>
                IF result = "ack" /\ ~aliased
                THEN pc'[c] = "write"
                ELSE /\ pc'[c] = "disconnecting" /\ exc'[c]
                     /\ Count(log', "write") = Count(log, "write")]_vars
    /\ [](\A i \in 1 .. Len(log) :
            (log[i].op = "failed" /\ log[i].cmd \in {"SET_DATETIME", "SET_ID"}) =>
                \A j \in i + 1 .. Len(log) : log[j].op # "write")

\* C38: insert_measurements adds a measurement only when no stored row has
\* its (date, patient_id): after any sequence of calls the table holds at
\* most one row for each (date, patient_id); a call keeps the rows that
\* were stored, appends no_inserted rows, each of the patient and of a
\* measurement of the call whose date no earlier row of the patient had,
\* and leaves every measurement of the call with a row of its date; and a
\* call with the arguments of the call before it inserts nothing and leaves
\* the table as it was
InsertIsIdempotent ==
    /\ [](\A i, j \in 1 .. Len(ret.value.rows) :
            (/\ ret.value.rows[i].date = ret.value.rows[j].date
             /\ ret.value.rows[i].patient_id = ret.value.rows[j].patient_id)
                => (i = j))
    /\ [][LET old == ret.value.rows
              new == ret'.value.rows
              pid == call'.arg[1]
              ms  == call'.arg[2]
          IN  /\ Len(new) = Len(old) + ret'.value.no_inserted
              /\ SubSeq(new, 1, Len(old)) = old
              /\ \A i \in Len(old) + 1 .. Len(new) :
                    /\ \E k \in 1 .. Len(ms) : new[i] = Row(pid, ms[k])
                    /\ selected(SubSeq(new, 1, i - 1), new[i].date, pid) = {}
              /\ \A k \in 1 .. Len(ms) : selected(new, ms[k][1], pid) # {}
              /\ (call.fn = "insert_measurements" /\ call'.arg = call.arg) =>
                    (ret'.value.no_inserted = 0 /\ new = old)]_vars

\* a call was repeated on a table that holds rows of two patients: nothing
\* was inserted, and the measurements of one minute left one row
InsertIsIdempotentWitness ==
    /\ call.fn = "insert_measurements"
    /\ ret.value.repeated
    /\ ret.value.no_inserted = 0
    /\ ret.value.downloaded = 2
    /\ call.arg[2][1][1] = call.arg[2][2][1]
    /\ call.arg[2][1] # call.arg[2][2]
    /\ Cardinality(selected(ret.value.rows, call.arg[2][1][1], call.arg[1])) = 1
    /\ {ret.value.rows[i].patient_id : i \in 1 .. Len(ret.value.rows)} = PatientIds

====
